---- MODULE Spec2Model ----
(***************************************************************************)
(* The cgroups v2 isolator (Cgroups2IsolatorProcess) as a state machine.   *)
(*                                                                         *)
(* The isolator is a libprocess actor: every public operation and every    *)
(* deferred continuation is one handler that runs to completion, so each   *)
(* handler is one action.  A continuation that waits for futures owned by  *)
(* other actors (controller calls, cgroups2::destroy) is a record in the   *)
(* bag `pending`; the action that runs it draws the outcomes of those      *)
(* futures from Outcomes.                                                  *)
(***************************************************************************)
EXTENDS Bags, FiniteSets, Integers, Sequences, TLC

VARIABLES
  infos,     \* hashmap<ContainerID, Owned<Info>> infos
  dirs,      \* the cgroup directories that exist on disk
  subtree,   \* cgroup.subtree_control of each directory
  pending,   \* bag of continuations waiting for futures of other actors
  aborted,   \* a CHECK failed: the process is gone
  recovery,  \* the recover in flight: its phase, its errors, its orphans
  last,      \* the handler that ran last: what it returned and invoked
  watcher    \* io::Watcher: its Data, the files and the inotify instance

vars == <<infos, dirs, subtree, pending, aborted, recovery, last, watcher>>

----------------------------------------------------------------------------
(* Bounds of the model. *)

\* Continuations that may be in flight at the same time.
MaxPending == 2

----------------------------------------------------------------------------
(* Container ids, configurations, controllers. *)

P1 == <<"p1">>
C1 == <<"p1", "c1">>
ContainerIds == {P1, C1}

has_parent(containerId) == Len(containerId) > 1
parent(containerId) == SubSeq(containerId, 1, Len(containerId) - 1)

\* The controllers the isolator was created with ("core" is always created),
\* in the order in which foreachvalue goes through the hashmap.
controllerOrder == <<"core", "cpu">>
controllers == {controllerOrder[i] : i \in DOMAIN controllerOrder}
Preceding(name) ==
  {controllerOrder[i] : i \in {j \in DOMAIN controllerOrder :
     \E k \in DOMAIN controllerOrder : j < k /\ controllerOrder[k] = name}}

skip_enable_none == {}
skip_enable == {"core", "perf_event", "devices"}

Outcomes == {"ready", "failed", "discarded"}

\* ContainerConfig: the fields prepare reads.
\* (user: has_user(); command_user: task_info().command().has_user().)
NoCfg == [share_cgroups |-> "unset", rootfs |-> FALSE, task_info |-> FALSE,
          debug |-> FALSE, user |-> FALSE, command_user |-> FALSE]
Configs ==
  { NoCfg,
    [share_cgroups |-> "false", rootfs |-> TRUE, task_info |-> FALSE,
     debug |-> FALSE, user |-> TRUE, command_user |-> FALSE],
    [share_cgroups |-> "true", rootfs |-> TRUE, task_info |-> TRUE,
     debug |-> FALSE, user |-> TRUE, command_user |-> FALSE],
    [share_cgroups |-> "false", rootfs |-> FALSE, task_info |-> FALSE,
     debug |-> TRUE, user |-> FALSE, command_user |-> FALSE] }

\* The configurations a container is launched with: share_cgroups and the
\* DEBUG class are settings of nested containers.
ConfigsOf(containerId) ==
  {cfg \in Configs :
     has_parent(containerId) \/ (cfg.share_cgroups # "false" /\ ~cfg.debug)}

shareCgroups(containerId, containerConfig) ==
  /\ has_parent(containerId)
  /\ IF containerConfig.share_cgroups # "unset"
       THEN containerConfig.share_cgroups = "true"
       ELSE TRUE

----------------------------------------------------------------------------
(* The cgroup2 file system. *)

root == <<"mesos">>

container(containerId, leaf) ==
  root \o containerId \o (IF leaf THEN <<"leaf">> ELSE <<>>)

\* cgroups2_paths::agent(root): the cgroup of the agent itself.
agent == root \o <<"agent">>

AllPaths ==
  {root, agent} \cup {container(c, l) : c \in ContainerIds, l \in BOOLEAN}

IsPrefix(p, q) == Len(p) <= Len(q) /\ SubSeq(q, 1, Len(p)) = p

\* cgroups2::get(root): the cgroups under the root.
cgroups2_get(d) == {p \in d : p # root /\ IsPrefix(root, p)}

\* cgroups2_paths::containerId(root, cgroup): the container id the cgroup is
\* the non-leaf cgroup of, <<>> (None) for a leaf cgroup.
paths_containerId(cgroup) ==
  IF cgroup[Len(cgroup)] = "leaf" THEN <<>>
  ELSE SubSeq(cgroup, Len(root) + 1, Len(cgroup))

exists(d, cgroup) == cgroup \in d

\* cgroups2::create(cgroup, recursive = true): the cgroup and its missing
\* ancestors below the root.
create_nonRecursive(d, cgroup) ==
  IF SubSeq(cgroup, 1, Len(cgroup) - 1) \in d THEN d \cup {cgroup} ELSE d
create(d, cgroup) ==
  d \cup {p \in AllPaths : IsPrefix(root, p) /\ IsPrefix(p, cgroup)}

\* The cgroups from the first one under the root down to the non-leaf cgroup:
\* the hops of the enable loop of prepare.
hops_last(containerId) == {container(containerId, FALSE)}
hops(containerId) ==
  {root \o SubSeq(containerId, 1, i) : i \in 1..Len(containerId)}

\* cgroups2::controllers::enable of each of `names` in each of `cgroups`.
enable(s, cgroups, names) ==
  [p \in AllPaths |-> IF p \in cgroups THEN s[p] \cup names ELSE s[p]]

\* What a successful cgroups2::destroy(cgroup) leaves on disk.
destroyed_nothing(d, cgroup) == d
destroyed(d, cgroup) == {p \in d : ~IsPrefix(cgroup, p)}
cleared(s, d) == [p \in AllPaths |-> IF p \in d THEN s[p] ELSE {}]

----------------------------------------------------------------------------
(* Info and the continuations. *)

NoInfo == [isolate |-> FALSE, cgroup |-> <<>>, cgroup_leaf |-> <<>>,
           controllers |-> {}, limitation |-> [state |-> "null", by |-> "none"]]

NoLimitation == [state |-> "pending", by |-> "none"]

Info(containerId, cgroup, cgroup_leaf, isolate) ==
  [isolate |-> isolate, cgroup |-> cgroup, cgroup_leaf |-> cgroup_leaf,
   controllers |-> {}, limitation |-> NoLimitation]

contains_always(m, containerId) == TRUE
contains(m, containerId) == m[containerId] # NoInfo

erase_nothing(m, containerId) == m
erase(m, containerId) == [m EXCEPT ![containerId] = NoInfo]

RECURSIVE cgroupInfo(_, _)
cgroupInfo(m, containerId) ==
  IF contains(m, containerId) THEN m[containerId]
  ELSE IF ~has_parent(containerId) THEN NoInfo
  ELSE cgroupInfo(m, parent(containerId))

\* The not-ready futures of an await: one error message each.
errors_failed(futures) ==
  {c \in DOMAIN futures : futures[c] = "failed"}
errors(futures) ==
  {c \in DOMAIN futures : futures[c] # "ready"}

Cont(k, call, containerId, containerConfig, ctrls, future) ==
  [k |-> k, call |-> call, cid |-> containerId, cfg |-> containerConfig,
   ctrls |-> ctrls, future |-> future]

\* Option<ContainerLaunchInfo>: None, and a ContainerLaunchInfo with the
\* namespaces to clone, the mounts to make and the arguments of the command.
None == [some |-> FALSE, clone_namespaces |-> {}, mounts |-> {},
         arguments |-> {}]

ContainerLaunchInfo(clone_namespaces, mounts, arguments) ==
  [some |-> TRUE, clone_namespaces |-> clone_namespaces, mounts |-> mounts,
   arguments |-> arguments]

\* protobuf::slave::createContainerMount(source, target, flags).
createContainerMount(source, target, flags) ==
  [source |-> source, target |-> target, flags |-> flags]

\* The arguments of recover, of an event that is not the completion of one.
NoArgs == [states |-> <<>>, orphans |-> {}]

\* No future awaited.
NoFutures == [c \in {} |-> "ready"]

\* What a handler did: the public operation `call` it runs for, the container,
\* whether the container owns its cgroups under this configuration, the state
\* of the future of the call when the handler returns ("abort" for a failed
\* CHECK), and the controller calls it made.  `launchInfo` is the launch
\* info in the value prepare returns and `cfg` the configuration it was
\* called with, in the event of the handler that returns it.
\* `future` is the outcome of the one future the handler was run with or
\* waited for (destroy, a controller's watch), "none" otherwise.
EventOf(op, call, containerId, containerConfig, ret, invoked, future) ==
  [op |-> op, call |-> call, cid |-> containerId,
   isolate |-> ~shareCgroups(containerId, containerConfig),
   ret |-> ret, invoked |-> invoked, future |-> future,
   futures |-> NoFutures, result |-> {}, args |-> NoArgs,
   launchInfo |-> None, cfg |-> NoCfg]

\* An event of a handler that returns a value merged from the results of
\* controllers: `futures` is what the controllers answered, `result` the set
\* of controllers whose answer is in the value.
Merged(event, futures, result) ==
  [event EXCEPT !.futures = futures, !.result = result]

\* What an await collected: "ready" when every future is ready, the state of
\* one that is not otherwise.
awaited(futures) ==
  IF errors(futures) = {} THEN "ready"
  ELSE futures[CHOOSE c \in errors(futures) : TRUE]

Event(op, call, containerId, containerConfig, ret, invoked) ==
  EventOf(op, call, containerId, containerConfig, ret, invoked, "none")

Calls_none(ctrls, op) == {}
Calls(ctrls, op) == {<<c, op>> : c \in ctrls}

\* No recover is in flight and none has left an orphan behind.  `states` and
\* `orphans` are the arguments of the recover in flight, `again` tells that
\* it repeats the recover that has just completed.  `knownOrphans`
\* and `unknownOrphans` are the orphans the last recover found that have not
\* been cleaned up since; `started` are those of them a destroy has been
\* started for, `restarted` those a destroy has been started for again.
NoRecovery == [phase |-> "idle", failed |-> FALSE, states |-> <<>>,
               orphans |-> {}, again |-> FALSE,
               knownOrphans |-> {}, unknownOrphans |-> {},
               started |-> {}, restarted |-> {}]

\* A destroy of the cgroup of `containerId` is started.
destroyStarted(r, containerId) ==
  IF containerId \in r.knownOrphans \cup r.unknownOrphans
    THEN [r EXCEPT !.started = @ \cup {containerId},
                   !.restarted = IF containerId \in r.started
                                   THEN @ \cup {containerId} ELSE @]
    ELSE r

\* The Info of `containerId` is erased: it is no orphan any more.
cleanedUp(r, containerId) ==
  [r EXCEPT !.knownOrphans = @ \ {containerId},
            !.unknownOrphans = @ \ {containerId},
            !.started = @ \ {containerId},
            !.restarted = @ \ {containerId}]

----------------------------------------------------------------------------
(* io::Watcher, the inotify-backed watcher of files: its interface and its *)
(* Data as io.hpp declares them; what add, remove and the read loop do is  *)
(* taken from the comments of the interface.                               *)

\* The paths a caller passes: two files that come and go, and a directory.
Files == {"memory.events", "memory.high"}
Directories == {"memory"}
Paths == Files \cup Directories

\* The watch descriptors inotify hands out.
WatchDescriptors == {"wd1", "wd2"}

\* No Watcher::Event.
NoEvent == [path |-> "", type |-> "None"]

\* create_watcher(): Data with empty maps; `files` are the files that exist
\* (the directory always does), `inodes` the watches whose file is still at
\* its path, `inotify` the events the kernel has queued for the read loop,
\* `op`, `path` and `ret` the last call and its result, `event` the event the
\* read loop put in Data::events last.
create_watcher ==
  [wd_to_path |-> [wd \in {} |-> ""], path_to_wd |-> [p \in {} |-> ""],
   files |-> Files, inodes |-> {}, inotify |-> {},
   op |-> "create_watcher", path |-> "", ret |-> "ready", event |-> NoEvent]

isolator == <<infos, dirs, subtree, pending, aborted, recovery, last>>

\* The path has been watched and not implicitly or explicitly removed.
watched_never(w, path) == FALSE
watched(w, path) == path \in DOMAIN w.path_to_wd

\* Both maps without the watch of `path`; the kernel drops the watch, and
\* the events it has queued for it are for no watch the read loop knows.
unwatch(w, path) ==
  [w EXCEPT
     !.wd_to_path = [wd \in DOMAIN @ \ {w.path_to_wd[path]} |-> @[wd]],
     !.path_to_wd = [p \in DOMAIN @ \ {path} |-> @[p]],
     !.inodes = @ \ {w.path_to_wd[path]},
     !.inotify = {e \in @ : e[1] # w.path_to_wd[path]}]

\* Watcher::add(path): an error if the path does not exist, is a directory
\* or is watched already; a new watch otherwise.
add(path) ==
  LET called == [watcher EXCEPT !.op = "add", !.path = path] IN
  /\ IF \/ path \notin watcher.files \cup Directories
        \/ path \in Directories
        \/ watched(watcher, path)
       THEN watcher' = [called EXCEPT !.ret = "error"]
       ELSE \E wd \in WatchDescriptors :
              /\ wd \notin DOMAIN watcher.wd_to_path
              /\ watcher' =
                   [called EXCEPT
                      !.ret = "ready",
                      !.inodes = @ \cup {wd},
                      !.wd_to_path = (wd :> path) @@ @,
                      !.path_to_wd = (path :> wd) @@ @]
  /\ UNCHANGED isolator

\* Watcher::remove(path): removing an already removed file is a no-op and
\* also returns Nothing.
remove(path) ==
  LET called == [watcher EXCEPT !.op = "remove", !.path = path,
                                !.ret = "ready"]
  IN
  /\ watcher' = IF watched(watcher, path) THEN unwatch(called, path)
                ELSE called
  /\ UNCHANGED isolator

\* Somebody else does `op` to the file: the kernel queues an event for the
\* watch of the file, if it has one, and a file that leaves its path takes
\* its watch along.
notify(w, op, path, mask) ==
  LET done == [w EXCEPT !.op = op, !.path = path, !.ret = "ready"] IN
  IF path \in DOMAIN w.path_to_wd /\ w.path_to_wd[path] \in w.inodes
    THEN [done EXCEPT
            !.inotify = @ \cup {<<w.path_to_wd[path], mask>>},
            !.inodes = IF mask = "IN_MODIFY" THEN @
                       ELSE @ \ {w.path_to_wd[path]}]
    ELSE done

\* Somebody writes, removes, renames or creates a file.
FileWritten(path) ==
  /\ path \in watcher.files
  /\ watcher' = notify(watcher, "write", path, "IN_MODIFY")
  /\ UNCHANGED isolator

FileRemoved(path) ==
  /\ path \in watcher.files
  /\ watcher' = [notify(watcher, "unlink", path, "IN_DELETE_SELF")
                   EXCEPT !.files = @ \ {path}]
  /\ UNCHANGED isolator

FileRenamed(path) ==
  /\ path \in watcher.files
  /\ watcher' = [notify(watcher, "rename", path, "IN_MOVE_SELF")
                   EXCEPT !.files = @ \ {path}]
  /\ UNCHANGED isolator

FileCreated(path) ==
  /\ path \in Files \ watcher.files
  /\ watcher' = [watcher EXCEPT !.files = @ \cup {path}, !.op = "creat",
                                !.path = path, !.ret = "ready"]
  /\ UNCHANGED isolator

\* Watcher::Event::type of an inotify event.
eventType(mask) ==
  CASE mask = "IN_MODIFY" -> "Write"
    [] mask = "IN_DELETE_SELF" -> "Remove"
    [] mask = "IN_MOVE_SELF" -> "Rename"

\* The read loop takes an event of the kernel and puts a Write, Remove or
\* Rename event in Data::events; any watch on a removed or renamed path is
\* removed.
read_loop(e) ==
  LET path == watcher.wd_to_path[e[1]]
      put == [watcher EXCEPT !.inotify = @ \ {e}, !.op = "read_loop",
                             !.path = path, !.ret = "ready",
                             !.event = [path |-> path,
                                        type |-> eventType(e[2])]]
  IN
  /\ e \in watcher.inotify
  /\ watcher' = IF eventType(e[2]) \in {"Remove", "Rename"}
                  THEN unwatch(put, path)
                ELSE put
  /\ UNCHANGED isolator

----------------------------------------------------------------------------
Waiting(k) == {rec \in BagToSet(pending) : rec.k = k}

\* A public operation is dispatched as long as the process lives; the model
\* lets it run when the continuations it leaves in flight fit the bound.
CanStart == ~aborted
Bounded == BagCardinality(pending') <= MaxPending

Await(rec) == pending (+) SetToBag({rec})
Resume(rec) == pending (-) SetToBag({rec})

TypeOK ==
  /\ \A c \in ContainerIds :
       contains(infos, c) =>
         /\ infos[c].cgroup = container(c, FALSE)
         /\ infos[c].cgroup_leaf = container(c, TRUE)
         /\ infos[c].controllers \subseteq controllers
         /\ infos[c].isolate \in BOOLEAN
         /\ infos[c].limitation.state \in Outcomes \cup {"pending"}
  /\ dirs \subseteq AllPaths
  /\ \A p \in AllPaths : subtree[p] \subseteq controllers
  /\ IsABag(pending)
  /\ BagCardinality(pending) <= MaxPending
  /\ aborted \in BOOLEAN
  /\ recovery.phase \in {"idle", "states", "orphans"}
  /\ recovery.failed \in BOOLEAN
  /\ recovery.orphans \subseteq ContainerIds
  /\ \A i \in DOMAIN recovery.states :
       recovery.states[i].cid \in ContainerIds
  /\ recovery.again \in BOOLEAN
  /\ recovery.knownOrphans \subseteq ContainerIds
  /\ recovery.unknownOrphans \subseteq ContainerIds
  /\ recovery.knownOrphans \cap recovery.unknownOrphans = {}
  /\ recovery.started \subseteq
       recovery.knownOrphans \cup recovery.unknownOrphans
  /\ recovery.restarted \subseteq recovery.started

Init ==
  /\ infos = [c \in ContainerIds |-> NoInfo]
  /\ dirs = {root}
  /\ \E bootstrap \in SUBSET (controllers \ skip_enable) :
       subtree = [p \in AllPaths |-> IF p = root THEN bootstrap ELSE {}]
  /\ pending = EmptyBag
  /\ aborted = FALSE
  /\ recovery = NoRecovery
  /\ last = Event("init", "init", P1, NoCfg, "ready", {})
  /\ watcher = create_watcher

----------------------------------------------------------------------------
(* prepare and its continuations. *)

\* The user the leaf cgroup is chowned to, if any.
chownUser(containerConfig) ==
  /\ containerConfig.user
  /\ (containerConfig.task_info /\ containerConfig.rootfs)
       => containerConfig.command_user

\* Errors the file system may answer prepare with.
PrepareErrors == {"none", "create", "createLeaf", "enable", "chown"}

\* What __prepare returns: None without a rootfs, a failure when no Info is
\* found for the container, the launch info otherwise.
__prepare_ret(m, containerId, containerConfig) ==
  IF ~containerConfig.rootfs THEN "ready"
  ELSE IF cgroupInfo(m, containerId) = NoInfo THEN "failed"
  ELSE "ready"

\* path::join(containerConfig.rootfs(), "/sys/fs/cgroup").
sysFsCgroup == <<"rootfs", "sys", "fs", "cgroup">>

\* The command task gets the launch info in an argument of the command of
\* the launch info that is returned.
wrapped_never(containerConfig) == FALSE
wrapped(containerConfig) == containerConfig.task_info

\* The value __prepare returns when it does not fail.
__prepare_launchInfo(m, containerId, containerConfig) ==
  LET info == cgroupInfo(m, containerId)
      launchInfo ==
        ContainerLaunchInfo(
          {"CLONE_NEWCGROUP", "CLONE_NEWNS"},
          {createContainerMount(info.cgroup_leaf, sysFsCgroup,
                                {"MS_BIND", "MS_REC"})},
          {})
  IN
  IF ~containerConfig.rootfs \/ info = NoInfo THEN None
  ELSE IF wrapped(containerConfig)
    THEN ContainerLaunchInfo({}, {},
                             {<<"--task_launch_info", launchInfo>>})
  ELSE launchInfo

\* The enable loop of prepare may fail for any controller it enables, at any
\* hop.
EnableFailures(containerId) ==
  [name : controllers \ skip_enable, hop : hops(containerId)]
NoFailure == [name |-> "none", hop |-> root]

\* The controllers the kernel refuses to enable under the root: a cgroup
\* offers only the controllers its parent has in its subtree_control.
unavailable == (controllers \ skip_enable) \ subtree[root]

\* The answers the enable loop can get: it does not get past the first
\* controller that is unavailable, which fails at the first hop.
enableAnswers(containerId, err, failing) ==
  IF err = "enable"
    THEN /\ Preceding(failing.name) \cap unavailable = {}
         /\ failing.name \in unavailable =>
              failing.hop = root \o SubSeq(containerId, 1, 1)
    ELSE unavailable = {}

\* prepare from the creation of the cgroups on (the container has no Info,
\* the root cgroup exists and the non-leaf cgroup does not).  `err` is the
\* file system call that fails, `failing` the controller and the hop at which
\* enable fails.
\* infos[containerId] = Owned<Info>(new Info(...)): every container that
\* gets as far as this has an Info of its own, whether it shares the cgroups
\* of its parent or not.
insert_unlessShared(m, containerId, info) ==
  IF info.isolate THEN [m EXCEPT ![containerId] = info] ELSE m
insert(m, containerId, info) == [m EXCEPT ![containerId] = info]

\* CHECK(containerConfig.container_class() != ContainerClass::DEBUG) fails.
isDebug_never(containerConfig) == FALSE
isDebug(containerConfig) == containerConfig.debug

prepare_create(containerId, containerConfig, err, failing) ==
  LET nonLeafCgroup == container(containerId, FALSE)
      leafCgroup == container(containerId, TRUE)
      share == shareCgroups(containerId, containerConfig)
      d1 == create(dirs, nonLeafCgroup)
      d2 == create(d1, leafCgroup)
      info == Info(containerId, nonLeafCgroup, leafCgroup, ~share)
      inserted == insert(infos, containerId, info)
      ev(ret, invoked) ==
        Event("prepare", "prepare", containerId, containerConfig, ret, invoked)
      \* The controllers the loop went through before it returned.
      looped == IF err = "enable" THEN Preceding(failing.name)
                ELSE controllers
      registered ==
        [inserted EXCEPT ![containerId].controllers = looped]
      enabled ==
        enable(enable(subtree, hops(containerId), looped \ skip_enable),
               IF err = "enable"
                 THEN {h \in hops(containerId) : Len(h) < Len(failing.hop)}
                 ELSE {},
               {failing.name})
  IN
  IF err = "create"
    THEN /\ last' = ev("failed", {})
         /\ UNCHANGED <<infos, dirs, subtree, pending, aborted>>
  ELSE IF exists(d1, leafCgroup) \/ err = "createLeaf"
    THEN /\ dirs' = d1
         /\ last' = ev("failed", {})
         /\ UNCHANGED <<infos, subtree, pending, aborted>>
  ELSE IF share
    THEN /\ dirs' = d2
         /\ infos' = inserted
         /\ last' = [ev(__prepare_ret(inserted, containerId,
                                      containerConfig), {})
                       EXCEPT !.launchInfo =
                         __prepare_launchInfo(inserted, containerId,
                                              containerConfig),
                              !.cfg = containerConfig]
         /\ UNCHANGED <<subtree, pending, aborted>>
  ELSE IF isDebug(containerConfig)
    THEN /\ dirs' = d2
         /\ infos' = inserted
         /\ aborted' = TRUE
         /\ last' = [ev("abort", {}) EXCEPT !.cfg = containerConfig]
         /\ UNCHANGED <<subtree, pending>>
  ELSE /\ enableAnswers(containerId, err, failing)
       /\ dirs' = d2
       /\ infos' = registered
       /\ subtree' = enabled
       /\ aborted' = aborted
       /\ IF err = "enable" \/ (err = "chown" /\ chownUser(containerConfig))
            THEN /\ pending' = pending
                 /\ last' = ev("failed", Calls(looped, "prepare"))
            ELSE /\ pending' = Await(Cont("_prepare", "prepare",
                                          containerId, containerConfig,
                                          controllers, "none"))
                 /\ last' = ev("pending", Calls(looped, "prepare"))

\* The first test of prepare: the container has been prepared already.
hasBeenPrepared_never(containerId) == FALSE
hasBeenPrepared(containerId) == contains(infos, containerId)

\* CHECK(cgroups2::exists(flags.cgroups_root)) fails.
rootMissing_ignored == FALSE
rootMissing == ~exists(dirs, root)

prepare(containerId, containerConfig) ==
  LET ev(ret, invoked) ==
        Event("prepare", "prepare", containerId, containerConfig, ret, invoked)
  IN
  /\ CanStart
  /\ IF hasBeenPrepared(containerId)
       THEN /\ last' = ev("failed", {})
            /\ UNCHANGED <<infos, dirs, subtree, pending, aborted>>
     ELSE IF rootMissing
       THEN /\ aborted' = TRUE
            /\ last' = ev("abort", {})
            /\ UNCHANGED <<infos, dirs, subtree, pending>>
     ELSE IF exists(dirs, container(containerId, FALSE))
       THEN /\ last' = ev("failed", {})
            /\ UNCHANGED <<infos, dirs, subtree, pending, aborted>>
       ELSE \E err \in PrepareErrors :
              \E failing \in IF err = "enable"
                               THEN EnableFailures(containerId)
                               ELSE {NoFailure} :
                prepare_create(containerId, containerConfig, err, failing)
  /\ UNCHANGED recovery
  /\ Bounded
  /\ UNCHANGED watcher

\* update is supported for the containers that have their own isolation.
updateSupported_always(info) == TRUE
updateSupported(info) == info.isolate

\* update(containerId, requests, limits) as far as its await; `call` is the
\* public operation it runs for ("prepare" when _prepare calls it).
update_from(call, containerId, containerConfig, pend, futures) ==
  LET ev(ret, invoked) ==
        Merged(Event(IF call = "prepare" THEN "_prepare" ELSE "update", call,
                     containerId, containerConfig, ret, invoked),
               futures, {})
      ctrls == infos[containerId].controllers \cap controllers
  IN
  IF ~contains(infos, containerId)
       \/ ~updateSupported(infos[containerId])
    THEN /\ pending' = pend
         /\ last' = ev("failed", {})
    ELSE /\ pending' = pend (+) SetToBag({Cont("_update", call, containerId,
                                               containerConfig, ctrls,
                                               "none")})
         /\ last' = ev("pending", Calls(ctrls, "update"))

_prepare(rec, futures) ==
  /\ ~aborted
  /\ BagIn(rec, pending)
  /\ rec.k = "_prepare"
  /\ IF errors(futures) # {}
       THEN /\ pending' = Resume(rec)
            /\ last' = Merged(Event("_prepare", "prepare", rec.cid, rec.cfg,
                                    "failed", {}),
                              futures, errors(futures))
       ELSE update_from("prepare", rec.cid, rec.cfg, Resume(rec), futures)
  /\ UNCHANGED <<infos, dirs, subtree, aborted, recovery>>
  /\ UNCHANGED watcher

update(containerId) ==
  /\ CanStart
  /\ update_from("update", containerId, NoCfg, pending, NoFutures)
  /\ UNCHANGED <<infos, dirs, subtree, aborted, recovery>>
  /\ Bounded
  /\ UNCHANGED watcher

_update(rec, futures) ==
  /\ ~aborted
  /\ BagIn(rec, pending)
  /\ rec.k = "_update"
  /\ IF errors(futures) # {}
       THEN /\ pending' = Resume(rec)
            /\ last' = EventOf("_update", rec.call, rec.cid, rec.cfg,
                               "failed", {}, awaited(futures))
     ELSE IF rec.call = "prepare"
       THEN /\ pending' = Resume(rec) (+)
                            SetToBag({Cont("__prepare", "prepare", rec.cid,
                                           rec.cfg, {}, "none")})
            /\ last' = EventOf("_update", rec.call, rec.cid, rec.cfg,
                               "pending", {}, awaited(futures))
       ELSE /\ pending' = Resume(rec)
            /\ last' = EventOf("_update", rec.call, rec.cid, rec.cfg,
                               "ready", {}, awaited(futures))
  /\ UNCHANGED <<infos, dirs, subtree, aborted, recovery>>
  /\ UNCHANGED watcher

__prepare(rec) ==
  /\ ~aborted
  /\ BagIn(rec, pending)
  /\ rec.k = "__prepare"
  /\ pending' = Resume(rec)
  /\ last' = [Event("__prepare", "prepare", rec.cid, rec.cfg,
                    __prepare_ret(infos, rec.cid, rec.cfg), {})
                EXCEPT !.launchInfo =
                  __prepare_launchInfo(infos, rec.cid, rec.cfg),
                       !.cfg = rec.cfg]
  /\ UNCHANGED <<infos, dirs, subtree, aborted, recovery>>
  /\ UNCHANGED watcher

----------------------------------------------------------------------------
(* cleanup and its continuations. *)

cleanup(containerId) ==
  LET ctrls == infos[containerId].controllers \cap controllers
      ev(ret, invoked) ==
        Event("cleanup", "cleanup", containerId, NoCfg, ret, invoked)
  IN
  /\ CanStart
  /\ IF ~contains(infos, containerId)
       THEN /\ last' = ev("ready", {})
            /\ pending' = pending
       ELSE /\ last' = ev("pending", Calls(ctrls, "cleanup"))
            /\ pending' = Await(Cont("_cleanup", "cleanup", containerId,
                                     NoCfg, ctrls, "none"))
  /\ UNCHANGED <<infos, dirs, subtree, aborted, recovery>>
  /\ Bounded
  /\ UNCHANGED watcher

\* The test of _cleanup that spares the destroy: the cgroup is gone already.
cgroupGone_never(d, info) == FALSE
cgroupGone(d, info) == ~exists(d, info.cgroup)

_cleanup(rec, futures) ==
  LET ev(ret) == Event("_cleanup", "cleanup", rec.cid, NoCfg, ret, {})
  IN
  /\ ~aborted
  /\ BagIn(rec, pending)
  /\ rec.k = "_cleanup"
  /\ IF ~contains(infos, rec.cid)
       THEN /\ aborted' = TRUE
            /\ last' = ev("abort")
            /\ UNCHANGED <<infos, pending, recovery>>
     ELSE IF errors(futures) # {}
       THEN /\ pending' = Resume(rec)
            /\ last' = ev("failed")
            /\ UNCHANGED <<infos, aborted, recovery>>
     ELSE IF cgroupGone(dirs, infos[rec.cid])
       THEN /\ infos' = erase(infos, rec.cid)
            /\ pending' = Resume(rec)
            /\ recovery' = cleanedUp(recovery, rec.cid)
            /\ last' = ev("ready")
            /\ UNCHANGED aborted
       ELSE /\ pending' = Resume(rec) (+)
                            SetToBag({Cont("destroy", "cleanup", rec.cid,
                                           NoCfg, {}, "none")})
            /\ recovery' = destroyStarted(recovery, rec.cid)
            /\ last' = ev("pending")
            /\ UNCHANGED <<infos, aborted>>
  /\ UNCHANGED <<dirs, subtree>>
  /\ UNCHANGED watcher

\* Future::then runs its continuation when the future is ready; a failed or
\* discarded future is passed on to the future that then returned.
then_runs_onAny(future) == TRUE
then_runs(future) == future = "ready"

\* cgroups2::destroy(cgroup) runs outside the isolator: it removes the cgroup
\* and everything below it and completes its future, or fails (or is
\* discarded) and leaves the directories.  __cleanup is attached with then.
destroy(rec, future) ==
  LET cgroup == container(rec.cid, FALSE)
      left == IF future = "ready" THEN destroyed(dirs, cgroup) ELSE dirs
  IN
  /\ ~aborted
  /\ BagIn(rec, pending)
  /\ rec.k = "destroy"
  /\ dirs' = left
  /\ subtree' = cleared(subtree, left)
  /\ IF then_runs(future)
       THEN /\ pending' = Resume(rec) (+)
                            SetToBag({Cont("__cleanup", "cleanup", rec.cid,
                                           NoCfg, {}, future)})
            /\ last' = EventOf("destroy", "cleanup", rec.cid, NoCfg,
                               "pending", {}, future)
       ELSE /\ pending' = Resume(rec)
            /\ last' = EventOf("destroy", "cleanup", rec.cid, NoCfg, future,
                               {}, future)
  /\ UNCHANGED <<infos, aborted, recovery>>
  /\ UNCHANGED watcher

\* The test of __cleanup on the future of destroy.
isFailed(future) == future = "failed"

__cleanup(rec) ==
  LET ev(ret) == Event("__cleanup", "cleanup", rec.cid, NoCfg, ret, {})
  IN
  /\ ~aborted
  /\ BagIn(rec, pending)
  /\ rec.k = "__cleanup"
  /\ pending' = Resume(rec)
  /\ IF isFailed(rec.future)
       THEN IF contains(infos, rec.cid)
              THEN /\ last' = ev("failed")
                   /\ UNCHANGED <<infos, aborted, recovery>>
              \* infos[containerId]->cgroup of a container without Info
              \* dereferences a null Owned<Info>.
              ELSE /\ aborted' = TRUE
                   /\ last' = ev("abort")
                   /\ UNCHANGED <<infos, recovery>>
       ELSE /\ infos' = erase(infos, rec.cid)
            /\ recovery' = cleanedUp(recovery, rec.cid)
            /\ last' = ev("ready")
            /\ UNCHANGED aborted
  /\ UNCHANGED <<dirs, subtree>>
  /\ UNCHANGED watcher

----------------------------------------------------------------------------
(* recover and its continuations. *)

\* cgroups2::create(cgroup) without `recursive`: the parent has to exist.
mkdir(d, cgroup) ==
  IF SubSeq(cgroup, 1, Len(cgroup) - 1) \in d THEN d \cup {cgroup} ELSE d

\* Errors the file system may answer ___recover with.
RecoverErrors == {"none", "create", "createLeaf", "enabled"}

\* ___recover as far as its await: the cgroups on disk when it returns, and
\* whether it got as far as the await (ok) or returned a failure.
___recover_keepsLeafMissing(d, containerId, err) ==
  LET nonLeafCgroup == container(containerId, FALSE)
      d1 == IF exists(d, nonLeafCgroup) \/ err = "create" THEN d
            ELSE mkdir(d, nonLeafCgroup)
  IN [dirs |-> d1, ok |-> exists(d1, nonLeafCgroup) /\ err # "enabled"]
___recover(d, containerId, err) ==
  LET nonLeafCgroup == container(containerId, FALSE)
      leafCgroup == container(containerId, TRUE)
      d1 == IF exists(d, nonLeafCgroup) \/ err = "create" THEN d
            ELSE mkdir(d, nonLeafCgroup)
      d2 == IF exists(d1, leafCgroup) \/ err = "createLeaf" THEN d1
            ELSE mkdir(d1, leafCgroup)
  IN
  IF ~exists(d, nonLeafCgroup) /\ ~exists(d1, nonLeafCgroup)
    THEN [dirs |-> d1, ok |-> FALSE]
  ELSE IF ~exists(d1, leafCgroup) /\ ~exists(d2, leafCgroup)
    THEN [dirs |-> d2, ok |-> FALSE]
  ELSE [dirs |-> d2, ok |-> err # "enabled"]

\* The controllers ___recover recovers: those of `controllers` that
\* cgroups2::controllers::enabled(nonLeafCgroup) lists.
recoveredControllers_all(s, containerId) == controllers
recoveredControllers(s, containerId) ==
  controllers \cap s[container(containerId, FALSE)]

\* ___recover of the containers of `todo`, one after the other.  Each entry
\* is a container id and the configuration its isolate flag is read from.
RECURSIVE recoverEach(_, _, _)
recoverEach(d, todo, errs) ==
  IF todo = <<>> THEN [dirs |-> d, awaited |-> {}, failed |-> FALSE]
  ELSE LET first == ___recover(d, Head(todo).cid, errs[Head(todo).cid])
           rest == recoverEach(first.dirs, Tail(todo), errs)
           rec == Cont("____recover", "recover", Head(todo).cid,
                       Head(todo).cfg,
                       recoveredControllers(subtree, Head(todo).cid), "none")
       IN [dirs |-> rest.dirs,
           awaited |-> rest.awaited \cup (IF first.ok THEN {rec} ELSE {}),
           failed |-> rest.failed \/ ~first.ok]

\* The agent calls recover first, before any other operation.
AtStartup ==
  /\ ~aborted
  /\ recovery.phase = "idle"
  /\ pending = EmptyBag
  /\ \A c \in ContainerIds : ~contains(infos, c)

\* recover(states, orphans) as far as its await.
recover_from(states, orphans, errs, again) ==
  LET r == recoverEach(dirs, states, errs)
  IN
  /\ ~aborted
  /\ recovery.phase = "idle"
  /\ dirs' = r.dirs
  /\ pending' = pending (+) SetToBag(r.awaited)
  /\ recovery' = [NoRecovery EXCEPT !.phase = "states",
                                    !.failed = r.failed,
                                    !.states = states,
                                    !.orphans = orphans,
                                    !.again = again]
  /\ last' = Event("recover", "recover", P1, NoCfg, "pending",
                   UNION {Calls(rec.ctrls, "recover") : rec \in r.awaited})
  /\ UNCHANGED <<infos, subtree, aborted>>
  /\ Bounded
  /\ UNCHANGED watcher

\* The recover of the agent that starts.
recover(states, orphans, errs) ==
  /\ AtStartup
  /\ recover_from(states, orphans, errs, FALSE)

\* recover is called a second time, with the arguments of the recover that
\* has just completed.
recoverAgain(errs) ==
  /\ last.op = "__recover"
  /\ last.ret = "ready"
  /\ recover_from(last.args.states, last.args.orphans, errs, TRUE)

____recover(rec, futures) ==
  LET ev(ret) == Event("____recover", "recover", rec.cid, rec.cfg, ret, {})
      info == Info(rec.cid, container(rec.cid, FALSE),
                   container(rec.cid, TRUE),
                   ~shareCgroups(rec.cid, rec.cfg))
  IN
  /\ ~aborted
  /\ BagIn(rec, pending)
  /\ rec.k = "____recover"
  /\ IF contains(infos, rec.cid)
       THEN /\ aborted' = TRUE
            /\ last' = ev("abort")
            /\ UNCHANGED <<infos, pending, recovery>>
     ELSE IF errors(futures) # {}
       THEN /\ pending' = Resume(rec)
            /\ recovery' = [recovery EXCEPT !.failed = TRUE]
            /\ last' = ev("failed")
            /\ UNCHANGED <<infos, aborted>>
       ELSE /\ infos' = [infos EXCEPT ![rec.cid] =
                           [info EXCEPT !.controllers = rec.ctrls]]
            /\ pending' = Resume(rec)
            /\ last' = ev("ready")
            /\ UNCHANGED <<aborted, recovery>>
  /\ UNCHANGED <<dirs, subtree>>
  /\ UNCHANGED watcher

\* The ids in the order in which the model goes through a set of them.
InOrder(ids) == SelectSeq(<<P1, C1>>, LAMBDA c : c \in ids)

\* The isolate flag ___recover is given for an orphan.
OrphanCfg == [NoCfg EXCEPT !.share_cgroups = "false"]

Orphan(ids) ==
  [i \in DOMAIN InOrder(ids) |-> [cid |-> InOrder(ids)[i], cfg |-> OrphanCfg]]

\* The sweep of _recover: the cgroups under the root that are the cgroup of
\* a container without Info.
swept_all ==
  {paths_containerId(cgroup) :
     cgroup \in {g \in cgroups2_get(dirs) \ {agent} :
                   paths_containerId(g) # <<>>}}
swept ==
  {c \in {paths_containerId(cgroup) :
            cgroup \in {g \in cgroups2_get(dirs) \ {agent} :
                          paths_containerId(g) # <<>>}} :
     ~contains(infos, c)}

\* The continuation of recover, once every ___recover of `states` has
\* completed, and the _recover(orphans) it calls.  `get` is the answer of
\* cgroups2::get.
_recover(get, errs) ==
  LET ev(ret, invoked) ==
        Event("_recover", "recover", P1, NoCfg, ret, invoked)
      knownOrphans == swept \cap recovery.orphans
      unknownOrphans == swept \ recovery.orphans
      r == recoverEach(dirs, Orphan(knownOrphans) \o Orphan(unknownOrphans),
                       errs)
  IN
  /\ ~aborted
  /\ recovery.phase = "states"
  /\ Waiting("____recover") = {}
  /\ IF recovery.failed \/ get # "ready"
       THEN /\ recovery' = NoRecovery
            /\ last' = ev("failed", {})
            /\ UNCHANGED <<dirs, pending>>
       ELSE /\ BagCardinality(pending) + Cardinality(swept) <= MaxPending
            /\ dirs' = r.dirs
            /\ pending' = pending (+) SetToBag(r.awaited)
            /\ recovery' = [recovery EXCEPT
                              !.phase = "orphans",
                              !.failed = r.failed,
                              !.knownOrphans = knownOrphans,
                              !.unknownOrphans = unknownOrphans]
            /\ last' = ev("pending",
                          UNION {Calls(rec.ctrls, "recover") :
                                   rec \in r.awaited})
  /\ UNCHANGED <<infos, subtree, aborted>>
  /\ UNCHANGED watcher

\* The continuations the cleanup of each of `ids` leaves in flight.
cleanups_none(ids) == {}
cleanups(ids) ==
  {Cont("_cleanup", "cleanup", c, NoCfg,
        infos[c].controllers \cap controllers, "none") :
     c \in {i \in ids : contains(infos, i)}}

\* The test of __recover on the futures it is given: one of them is not
\* ready.
sweepFailed_never(r) == FALSE
sweepFailed(r) == r.failed

\* __recover, once every ___recover of the orphans has completed;
\* `deviceManager` is the outcome of deviceManager->recover(states), which
\* recover collects with _recover.
__recover(deviceManager) ==
  LET ev(ret, invoked) ==
        Event("__recover", "recover", P1, NoCfg, ret, invoked)
      started == cleanups(recovery.unknownOrphans)
  IN
  /\ ~aborted
  /\ recovery.phase = "orphans"
  /\ Waiting("____recover") = {}
  /\ IF sweepFailed(recovery)
       THEN /\ last' = [ev("failed", {})
                          EXCEPT !.args = [states |-> recovery.states,
                                           orphans |-> recovery.orphans]]
            /\ pending' = pending
            /\ recovery' = NoRecovery
       ELSE /\ BagCardinality(pending) + Cardinality(started) <= MaxPending
            /\ pending' = pending (+) SetToBag(started)
            /\ recovery' = [recovery EXCEPT !.phase = "idle",
                                            !.states = <<>>,
                                            !.orphans = {},
                                            !.again = FALSE]
            /\ last' = [ev(deviceManager,
                           UNION {Calls(rec.ctrls, "cleanup") :
                                    rec \in started})
                          EXCEPT !.args = [states |-> recovery.states,
                                           orphans |-> recovery.orphans]]
  /\ UNCHANGED <<infos, dirs, subtree, aborted>>
  /\ UNCHANGED watcher

\* The agent restarts: the isolator is created anew, the cgroups stay.
Restart ==
  /\ infos' = [c \in ContainerIds |-> NoInfo]
  /\ pending' = EmptyBag
  /\ aborted' = FALSE
  /\ recovery' = NoRecovery
  /\ last' = Event("restart", "restart", P1, NoCfg, "ready", {})
  /\ UNCHANGED <<dirs, subtree>>
  /\ UNCHANGED watcher

----------------------------------------------------------------------------
(* isolate, watch. *)

\* The test of isolate that returns at once.
isolateReturnsEarly(info) == info.isolate

\* The controllers isolate fans out to.
isolateControllers(info) == controllers

isolate(containerId) ==
  LET ev(ret, invoked) ==
        Event("isolate", "isolate", containerId, NoCfg, ret, invoked)
      ctrls == isolateControllers(infos[containerId])
  IN
  /\ CanStart
  /\ IF ~contains(infos, containerId)
       THEN /\ last' = ev("failed", {})
            /\ pending' = pending
     ELSE IF isolateReturnsEarly(infos[containerId])
       THEN /\ last' = ev("ready", {})
            /\ pending' = pending
       ELSE /\ last' = ev("pending", Calls(ctrls, "isolate"))
            /\ pending' = Await(Cont("_isolate", "isolate", containerId,
                                     NoCfg, ctrls, "none"))
  /\ UNCHANGED <<infos, dirs, subtree, aborted, recovery>>
  /\ Bounded
  /\ UNCHANGED watcher

_isolate(rec, futures) ==
  /\ ~aborted
  /\ BagIn(rec, pending)
  /\ rec.k = "_isolate"
  /\ pending' = Resume(rec)
  /\ last' = Event("_isolate", "isolate", rec.cid, NoCfg,
                   IF errors(futures) # {} THEN "failed"
                   ELSE IF cgroupInfo(infos, rec.cid) = NoInfo THEN "failed"
                   ELSE "ready",
                   {})
  /\ UNCHANGED <<infos, dirs, subtree, aborted, recovery>>
  /\ UNCHANGED watcher

\* watch attaches _watch to the watch future of every enabled controller:
\* one continuation for each.
watch(containerId) ==
  LET ctrls == infos[containerId].controllers \cap controllers
      ev(ret, invoked) ==
        Event("watch", "watch", containerId, NoCfg, ret, invoked)
  IN
  /\ ~aborted
  /\ BagCardinality(pending) + Cardinality(ctrls) <= MaxPending
  /\ IF ~contains(infos, containerId)
       THEN /\ last' = ev("failed", {})
            /\ pending' = pending
       ELSE /\ last' = ev(infos[containerId].limitation.state,
                          Calls(ctrls, "watch"))
            /\ pending' = pending (+)
                 SetToBag({Cont("_watch", "watch", containerId, NoCfg, {c},
                                "none") : c \in ctrls})
  /\ UNCHANGED <<infos, dirs, subtree, aborted, recovery>>
  /\ UNCHANGED watcher

\* Promise::set(const Future<T>&) is associate: it takes the first future it
\* is given and refuses every later one.
associate(limitation, future, by) ==
  IF limitation = NoLimitation
    THEN [state |-> future, by |-> by]
    ELSE limitation

\* infos[containerId]->limitation.set(future), for the watch future of the
\* controller `by`.
limitation_overwritten(info, future, by) ==
  [info EXCEPT !.limitation = [state |-> future, by |-> by]]
limitation_set(info, future, by) ==
  [info EXCEPT !.limitation = associate(@, future, by)]

_watch(rec, future) ==
  LET by == CHOOSE c \in rec.ctrls : TRUE
  IN
  /\ ~aborted
  /\ BagIn(rec, pending)
  /\ rec.k = "_watch"
  /\ pending' = Resume(rec)
  /\ IF ~contains(infos, rec.cid)
       THEN infos' = infos
       ELSE infos' = [infos EXCEPT ![rec.cid] =
                        limitation_set(@, future, by)]
  /\ last' = EventOf("_watch", "watch", rec.cid, NoCfg,
                     infos'[rec.cid].limitation.state, {<<by, "_watch">>},
                     future)
  /\ UNCHANGED <<dirs, subtree, aborted, recovery>>
  /\ UNCHANGED watcher

\* The answers that are merged into the value usage and status return: those
\* of the ready futures.
readyResults_all(futures) == DOMAIN futures
readyResults(futures) ==
  {c \in DOMAIN futures : futures[c] = "ready"}

usage(containerId) ==
  LET ctrls == infos[containerId].controllers \cap controllers
      ev(ret, invoked) ==
        Event("usage", "usage", containerId, NoCfg, ret, invoked)
  IN
  /\ CanStart
  /\ IF ~contains(infos, containerId)
       THEN /\ last' = ev("failed", {})
            /\ pending' = pending
       ELSE /\ last' = ev("pending", Calls(ctrls, "usage"))
            /\ pending' = Await(Cont("usageThen", "usage", containerId,
                                     NoCfg, ctrls, "none"))
  /\ UNCHANGED <<infos, dirs, subtree, aborted, recovery>>
  /\ Bounded
  /\ UNCHANGED watcher

\* The continuation of usage: it never fails.
usageThen(rec, futures) ==
  /\ ~aborted
  /\ BagIn(rec, pending)
  /\ rec.k = "usageThen"
  /\ pending' = Resume(rec)
  /\ last' = Merged(Event("usageThen", "usage", rec.cid, NoCfg, "ready", {}),
                    futures, readyResults(futures))
  /\ UNCHANGED <<infos, dirs, subtree, aborted, recovery>>
  /\ UNCHANGED watcher

\* The container whose controllers status(containerId) asks: a container
\* without isolation is answered with the status of its parent. The empty
\* ContainerId, which no Info is kept for, stands for the failure "Unknown
\* container".
Unknown == <<>>
statusOf_self(m, containerId) ==
  IF ~contains(m, containerId) THEN Unknown ELSE containerId

RECURSIVE statusOf(_, _)
statusOf(m, containerId) ==
  IF ~contains(m, containerId) THEN Unknown
  ELSE IF ~m[containerId].isolate
    THEN IF has_parent(containerId)
           THEN statusOf(m, parent(containerId))
           ELSE Unknown
  ELSE containerId

status(containerId) ==
  LET of == statusOf(infos, containerId)
      ctrls == infos[of].controllers \cap controllers
      ev(ret, invoked) ==
        Event("status", "status", containerId, NoCfg, ret, invoked)
  IN
  /\ CanStart
  /\ IF of = Unknown
       THEN /\ last' = ev("failed", {})
            /\ pending' = pending
       ELSE /\ last' = ev("pending", Calls(ctrls, "status"))
            /\ pending' = Await(Cont("statusThen", "status", containerId,
                                     NoCfg, ctrls, "none"))
  /\ UNCHANGED <<infos, dirs, subtree, aborted, recovery>>
  /\ Bounded
  /\ UNCHANGED watcher

\* The continuation of status: it never fails.
statusThen(rec, futures) ==
  /\ ~aborted
  /\ BagIn(rec, pending)
  /\ rec.k = "statusThen"
  /\ pending' = Resume(rec)
  /\ last' = Merged(Event("statusThen", "status", rec.cid, NoCfg, "ready",
                          {}),
                    futures, readyResults(futures))
  /\ UNCHANGED <<infos, dirs, subtree, aborted, recovery>>
  /\ UNCHANGED watcher

----------------------------------------------------------------------------
(* The environment. *)

\* The root cgroup is removed underneath the agent (MESOS-9305); the kernel
\* removes a cgroup only when it has no child.
RemoveRoot ==
  /\ ~aborted
  /\ dirs = {root}
  /\ dirs' = {}
  /\ subtree' = cleared(subtree, {})
  /\ last' = Event("rmdir", "rmdir", P1, NoCfg, "ready", {})
  /\ UNCHANGED <<infos, pending, aborted, recovery>>
  /\ UNCHANGED watcher

\* The outcomes of the futures an await collects: all ready, or one of them
\* failed or discarded (the continuations only look for one that is not
\* ready).
Futures(ctrls) ==
  {fs \in [ctrls -> Outcomes] :
     Cardinality({c \in ctrls : fs[c] # "ready"}) <= 1}

NextPrepare ==
  \/ \E c \in ContainerIds : \E cfg \in ConfigsOf(c) : prepare(c, cfg)
  \/ \E rec \in Waiting("_prepare") : \E fs \in Futures(rec.ctrls) :
       _prepare(rec, fs)
  \/ \E rec \in Waiting("_update") : \E fs \in Futures(rec.ctrls) :
       _update(rec, fs)
  \/ \E rec \in Waiting("__prepare") : __prepare(rec)

NextCleanup ==
  \/ \E c \in ContainerIds : cleanup(c)
  \/ \E rec \in Waiting("_cleanup") : \E fs \in Futures(rec.ctrls) :
       _cleanup(rec, fs)
  \/ \E rec \in Waiting("destroy") : \E f \in Outcomes : destroy(rec, f)
  \/ \E rec \in Waiting("__cleanup") : __cleanup(rec)

NextIsolate ==
  \/ \E c \in ContainerIds : isolate(c)
  \/ \E rec \in Waiting("_isolate") : \E fs \in Futures(rec.ctrls) :
       _isolate(rec, fs)

NextWatch ==
  \/ \E c \in ContainerIds : watch(c)
  \/ \E rec \in Waiting("_watch") : \E f \in Outcomes : _watch(rec, f)

Next ==
  \/ NextPrepare
  \/ NextCleanup
  \/ RemoveRoot

\* The life cycle of the cgroups: prepare, cleanup and the root cgroup.
Spec == Init /\ [][Next]_vars

\* A container from prepare to cleanup under the default configuration, with
\* the agent watching it.
NextLimitation ==
  \/ \E c \in ContainerIds : prepare(c, NoCfg)
  \/ \E rec \in Waiting("_prepare") : \E fs \in Futures(rec.ctrls) :
       _prepare(rec, fs)
  \/ \E rec \in Waiting("_update") : \E fs \in Futures(rec.ctrls) :
       _update(rec, fs)
  \/ \E rec \in Waiting("__prepare") : __prepare(rec)
  \/ NextWatch
  \/ NextCleanup

SpecWatch == Init /\ [][NextLimitation]_vars

\* Containers of every configuration, prepared and isolated.
NextLaunch ==
  \/ NextPrepare
  \/ NextIsolate
  \/ NextCleanup

SpecIsolate == Init /\ [][NextLaunch]_vars

\* Every outcome of every controller: usage and status look at each of them.
Answers(ctrls) == [ctrls -> Outcomes]

\* What the agent asks of a container: one call at a time, which may pass a
\* cleanup that is still in progress.
AgentCalls ==
  /\ \A rec \in BagToSet(pending) : rec.call = "cleanup"
  /\ \E c \in ContainerIds :
       \/ update(c)
       \/ isolate(c)
       \/ watch(c)
       \/ usage(c)
       \/ status(c)
       \/ cleanup(c)

\* The continuations of these calls.
AgentContinuations ==
  \/ \E rec \in Waiting("_update") : \E fs \in Futures(rec.ctrls) :
       _update(rec, fs)
  \/ \E rec \in Waiting("_isolate") : \E fs \in Futures(rec.ctrls) :
       _isolate(rec, fs)
  \/ \E rec \in Waiting("_watch") : \E f \in Outcomes : _watch(rec, f)
  \/ \E rec \in Waiting("usageThen") : \E fs \in Answers(rec.ctrls) :
       usageThen(rec, fs)
  \/ \E rec \in Waiting("statusThen") : \E fs \in Answers(rec.ctrls) :
       statusThen(rec, fs)
  \/ \E rec \in Waiting("_cleanup") : \E fs \in Futures(rec.ctrls) :
       _cleanup(rec, fs)
  \/ \E rec \in Waiting("destroy") : \E f \in Outcomes : destroy(rec, f)
  \/ \E rec \in Waiting("__cleanup") : __cleanup(rec)

\* Running containers of every configuration, with the agent updating,
\* isolating and watching them and asking for their usage and status.
NextRunning ==
  \/ /\ pending = EmptyBag
     /\ \E c \in ContainerIds : \E cfg \in ConfigsOf(c) : prepare(c, cfg)
  \/ \E rec \in Waiting("_prepare") : \E fs \in Futures(rec.ctrls) :
       _prepare(rec, fs)
  \/ \E rec \in Waiting("__prepare") : __prepare(rec)
  \/ AgentCalls
  \/ AgentContinuations

SpecRunning == Init /\ [][NextRunning]_vars

\* The states and the orphans the agent may hand to recover: containers in
\* either order, nested ones sharing the cgroups of their parent or not.
RecoverStates ==
  LET p == [cid |-> P1, cfg |-> NoCfg]
      shared == [cid |-> C1, cfg |-> NoCfg]
      own == [cid |-> C1, cfg |-> OrphanCfg]
  IN {<<>>, <<p>>, <<shared>>, <<own>>, <<p, shared>>, <<p, own>>,
      <<shared, p>>, <<own, p>>}

\* The file system fails at most one ___recover of a recover.
RecoverAnswers ==
  {errs \in [ContainerIds -> RecoverErrors] :
     Cardinality({c \in ContainerIds : errs[c] # "none"}) <= 1}

NextRecover ==
  \/ /\ AtStartup
     /\ \E states \in RecoverStates, orphans \in SUBSET ContainerIds :
          \E errs \in RecoverAnswers : recover(states, orphans, errs)
  \/ \E rec \in Waiting("____recover") : \E fs \in Futures(rec.ctrls) :
       ____recover(rec, fs)
  \/ /\ recovery.phase = "states"
     /\ \E get \in {"ready", "failed"} :
          \E errs \in RecoverAnswers : _recover(get, errs)
  \/ \E deviceManager \in Outcomes : __recover(deviceManager)

\* An agent that restarts: containers that own their cgroups, recovered,
\* cleaned up.  The agent launches and destroys containers only when its
\* recovery is over.
NextRestart ==
  \/ \E c \in ContainerIds :
       recovery.phase = "idle" /\ prepare(c, OrphanCfg)
  \/ \E rec \in Waiting("_prepare") : \E fs \in Futures(rec.ctrls) :
       _prepare(rec, fs)
  \/ \E rec \in Waiting("_update") : \E fs \in Futures(rec.ctrls) :
       _update(rec, fs)
  \/ \E rec \in Waiting("__prepare") : __prepare(rec)
  \/ \E c \in ContainerIds : recovery.phase = "idle" /\ cleanup(c)
  \/ \E rec \in Waiting("_cleanup") : \E fs \in Futures(rec.ctrls) :
       _cleanup(rec, fs)
  \/ \E rec \in Waiting("destroy") : \E f \in Outcomes : destroy(rec, f)
  \/ \E rec \in Waiting("__cleanup") : __cleanup(rec)
  \/ NextRecover
  \/ Restart

\* The agent has made its own cgroup under the root.
InitAgent ==
  /\ infos = [c \in ContainerIds |-> NoInfo]
  /\ dirs = {root, agent}
  /\ \E bootstrap \in SUBSET (controllers \ skip_enable) :
       subtree = [p \in AllPaths |-> IF p = root THEN bootstrap ELSE {}]
  /\ pending = EmptyBag
  /\ aborted = FALSE
  /\ recovery = NoRecovery
  /\ last = Event("init", "init", P1, NoCfg, "ready", {})
  /\ watcher = create_watcher

SpecRecover == InitAgent /\ [][NextRestart]_vars

\* The same agent, which may repeat a recover that has just completed.
NextRecoverAgain ==
  \/ NextRestart
  \/ \E errs \in RecoverAnswers : recoverAgain(errs)

SpecRecoverAgain == Init /\ [][NextRecoverAgain]_vars

\* Containers launched and destroyed one call at a time: the agent calls
\* prepare and cleanup when no call of it is in flight.
NextSequential ==
  \/ /\ pending = EmptyBag
     /\ \E c \in ContainerIds : \E cfg \in ConfigsOf(c) : prepare(c, cfg)
  \/ \E rec \in Waiting("_prepare") : \E fs \in Answers(rec.ctrls) :
       _prepare(rec, fs)
  \/ \E rec \in Waiting("_update") : \E fs \in Futures(rec.ctrls) :
       _update(rec, fs)
  \/ \E rec \in Waiting("__prepare") : __prepare(rec)
  \/ /\ pending = EmptyBag
     /\ \E c \in ContainerIds : cleanup(c)
  \/ \E rec \in Waiting("_cleanup") : \E fs \in Futures(rec.ctrls) :
       _cleanup(rec, fs)
  \/ \E rec \in Waiting("destroy") : \E f \in Outcomes : destroy(rec, f)
  \/ \E rec \in Waiting("__cleanup") : __cleanup(rec)

SpecSequential == Init /\ [][NextSequential]_vars

\* Containers of every configuration whose resources the agent updates, any
\* number of updates in flight.
NextUpdates ==
  \/ \E c \in ContainerIds : \E cfg \in ConfigsOf(c) : prepare(c, cfg)
  \/ \E rec \in Waiting("_prepare") : \E fs \in Answers(rec.ctrls) :
       _prepare(rec, fs)
  \/ \E rec \in Waiting("_update") : \E fs \in Futures(rec.ctrls) :
       _update(rec, fs)
  \/ \E rec \in Waiting("__prepare") : __prepare(rec)
  \/ \E c \in ContainerIds : update(c)

SpecUpdates == Init /\ [][NextUpdates]_vars

\* A watcher in use: files are watched and unwatched while they are written,
\* removed, renamed and created, and the read loop runs.
NextWatcher ==
  \/ \E path \in Paths : add(path)
  \/ \E path \in Paths : remove(path)
  \/ \E path \in Files : FileWritten(path)
  \/ \E path \in Files : FileRemoved(path)
  \/ \E path \in Files : FileRenamed(path)
  \/ \E path \in Files : FileCreated(path)
  \/ \E e \in watcher.inotify : read_loop(e)

SpecWatcher == Init /\ [][NextWatcher]_vars

\* An agent that starts on the cgroups a previous run has left: the
\* non-leaf cgroups of the containers of `left`, with their ancestors and
\* the controllers the previous run enabled on the way, and the leaf cgroups
\* of some of them.
InitOrphans ==
  /\ infos = [c \in ContainerIds |-> NoInfo]
  /\ \E left \in SUBSET ContainerIds : \E leaves \in SUBSET left :
       \E bootstrap \in SUBSET (controllers \ skip_enable) :
         /\ dirs = {root} \cup UNION {hops(c) : c \in left}
                          \cup {container(c, TRUE) : c \in leaves}
         /\ subtree = [p \in AllPaths |->
                         IF p = root \/ p \in UNION {hops(c) : c \in left}
                           THEN bootstrap ELSE {}]
  /\ pending = EmptyBag
  /\ aborted = FALSE
  /\ recovery = NoRecovery
  /\ last = Event("init", "init", P1, NoCfg, "ready", {})
  /\ watcher = create_watcher

\* Every operation that calls the controllers of a container, on an agent
\* that starts with the cgroups a previous run left behind: containers under
\* the default configuration are recovered, prepared, isolated, updated and
\* cleaned up; a prepare and a cleanup may be called whatever is in flight.
NextFanOut ==
  \/ \E c \in ContainerIds : recovery.phase = "idle" /\ prepare(c, NoCfg)
  \/ \E rec \in Waiting("_prepare") : \E fs \in Futures(rec.ctrls) :
       _prepare(rec, fs)
  \/ \E rec \in Waiting("_update") : \E fs \in Futures(rec.ctrls) :
       _update(rec, fs)
  \/ \E rec \in Waiting("__prepare") : __prepare(rec)
  \/ \E c \in ContainerIds :
       recovery.phase = "idle" /\ pending = EmptyBag /\ isolate(c)
  \/ \E rec \in Waiting("_isolate") : \E fs \in Futures(rec.ctrls) :
       _isolate(rec, fs)
  \/ \E c \in ContainerIds :
       recovery.phase = "idle" /\ pending = EmptyBag /\ update(c)
  \/ \E c \in ContainerIds : recovery.phase = "idle" /\ cleanup(c)
  \/ \E rec \in Waiting("_cleanup") : \E fs \in Futures(rec.ctrls) :
       _cleanup(rec, fs)
  \/ \E rec \in Waiting("destroy") : \E f \in Outcomes : destroy(rec, f)
  \/ \E rec \in Waiting("__cleanup") : __cleanup(rec)
  \/ NextRecover

SpecFanOut == InitOrphans /\ [][NextFanOut]_vars

\* The cleanups recover scheduled go through: the cleanup of every
\* controller completes, and so does every destroy.
OrphanCleanup ==
  \/ \E rec \in Waiting("_cleanup") :
       _cleanup(rec, [c \in rec.ctrls |-> "ready"])
  \/ \E rec \in Waiting("destroy") : destroy(rec, "ready")
  \/ \E rec \in Waiting("__cleanup") : __cleanup(rec)

NextOrphans ==
  \/ NextRecover
  \/ OrphanCleanup

\* The isolator is an actor: a continuation whose future has completed is
\* dispatched eventually.
SpecOrphans ==
  InitOrphans /\ [][NextOrphans]_vars /\ WF_vars(OrphanCleanup)

----------------------------------------------------------------------------
(* Properties of cleanup. *)

nonLeafOf(containerId) == container(containerId, FALSE)
leafOf(containerId) == container(containerId, TRUE)

\* The continuations a step queued.
Queued(k) ==
  {rec \in BagToSet(pending') :
     rec.k = k /\ CopiesIn(rec, pending') > CopiesIn(rec, pending)}

\* C1 as claimed: whenever a cleanup(cid) returns ready, <root>/<cid> does
\* not exist and Info[cid] is absent.
C1_CleanupErasesAny ==
  (last.call = "cleanup" /\ last.ret = "ready") =>
    /\ ~exists(dirs, nonLeafOf(last.cid))
    /\ ~contains(infos, last.cid)

\* C1 amended: when a cleanup(cid) returns ready, Info[cid] is absent; when
\* the container had Info, the cleanup returns ready either from _cleanup,
\* which saw <root>/<cid> absent, or from __cleanup, which is queued only by
\* a destroy that removed <root>/<cid>.
C1_CleanupErases ==
  [][/\ (last'.call = "cleanup" /\ last'.ret = "ready") =>
          ~contains(infos', last'.cid)
     /\ (last'.op = "_cleanup" /\ last'.ret = "ready") =>
          ~exists(dirs', nonLeafOf(last'.cid))
     /\ \A rec \in Queued("__cleanup") :
          /\ last'.op = "destroy"
          /\ rec.cid = last'.cid
          /\ ~exists(dirs', nonLeafOf(rec.cid))
     /\ last'.op = "__cleanup" =>
          \E rec \in BagToSet(pending) :
            /\ rec.k = "__cleanup"
            /\ rec.cid = last'.cid
            /\ pending' = Resume(rec)]_vars

C1_Witness ==
  /\ last.op = "__cleanup"
  /\ last.ret = "ready"
  /\ ~exists(dirs, nonLeafOf(last.cid))
  /\ ~contains(infos, last.cid)

C3_ErasedOnlyWhenAbsent ==
  [][\A c \in ContainerIds :
       (contains(infos, c) /\ ~contains(infos', c)) =>
         ~exists(dirs', nonLeafOf(c))]_vars

\* C3 amended: an Info entry is erased only by _cleanup, when it sees the
\* non-leaf cgroup absent, or by the __cleanup of a destroy that completed
\* ready; the cgroup may exist again when __cleanup runs.
C3_ErasedOnlyAfterDestroy ==
  [][\A c \in ContainerIds :
       (contains(infos, c) /\ ~contains(infos', c)) =>
         /\ last'.cid = c
         /\ \/ /\ last'.op = "_cleanup"
               /\ ~exists(dirs, nonLeafOf(c))
            \/ /\ last'.op = "__cleanup"
               /\ \E rec \in BagToSet(pending) :
                    /\ rec.k = "__cleanup"
                    /\ rec.cid = c
                    /\ rec.future = "ready"
                    /\ pending' = Resume(rec)]_vars

C3_Witness ==
  /\ last.op = "_cleanup"
  /\ last.ret = "ready"
  /\ ~contains(infos, last.cid)
  /\ ~exists(dirs, nonLeafOf(last.cid))

----------------------------------------------------------------------------
(* Properties of prepare. *)

BothExist(d, containerId) ==
  exists(d, nonLeafOf(containerId)) /\ exists(d, leafOf(containerId))

\* C4 as claimed: whenever a prepare(cid) of a container that owns its
\* cgroups returns ready, <root>/<cid> and <root>/<cid>/leaf exist.
C4_PreparedCgroupsExist ==
  (last.call = "prepare" /\ last.ret = "ready" /\ last.isolate) =>
    BothExist(dirs, last.cid)

\* C4 amended: when prepare(cid) of a container that owns its cgroups has
\* inserted Info and fanned out (its future is pending or ready), both
\* cgroups exist, and no continuation of prepare (_prepare, the update it
\* calls, _update, __prepare) removes or creates a cgroup: they are missing
\* when prepare returns ready only if a destroy removed them in between.
C4_PrepareCreatesAndKeeps ==
  [][/\ (last'.op = "prepare" /\ last'.isolate
           /\ last'.ret \in {"pending", "ready"}) =>
          /\ BothExist(dirs', last'.cid)
          /\ contains(infos', last'.cid)
     /\ (last'.call = "prepare" /\ last'.op # "prepare") => dirs' = dirs
     /\ dirs' \subseteq dirs \/ last'.op = "prepare"
     /\ (dirs' # dirs /\ dirs' \subseteq dirs) =>
          last'.op \in {"destroy", "rmdir"}]_vars

C4_Witness ==
  /\ last.op = "__prepare"
  /\ last.ret = "ready"
  /\ last.isolate
  /\ BothExist(dirs, last.cid)
  /\ contains(infos, last.cid)

\* C6 as claimed: when a prepare(cid) of a container that owns its cgroups
\* has returned ready (and the container still has its Info and its cgroup),
\* every controller of Info[cid].controllers other than core, perf_event and
\* devices is in the subtree_control of every cgroup from the root through
\* <root>/<cid>, and the subtree_control of the leaf is empty.
C6_SubtreeControlAtCompletion ==
  (/\ last.call = "prepare"
   /\ last.ret = "ready"
   /\ last.isolate
   /\ contains(infos, last.cid)
   /\ exists(dirs, nonLeafOf(last.cid))) =>
    /\ \A name \in infos[last.cid].controllers \
                     {"core", "perf_event", "devices"} :
         \A p \in AllPaths :
           IsPrefix(p, nonLeafOf(last.cid)) => name \in subtree[p]
    /\ subtree[leafOf(last.cid)] = {}

\* C6 amended: when prepare(cid) of a container that owns its cgroups has
\* gone through its enable loop without failure, every controller of
\* Info[cid].controllers other than core, perf_event and devices is in the
\* subtree_control of every cgroup from the root through <root>/<cid> and
\* the subtree_control of the leaf is empty; the continuations of prepare
\* write no subtree_control, and a cgroup loses a controller only when it is
\* removed (by a destroy, or the root underneath the agent).
C6_SubtreeControlWhenEnabled ==
  [][/\ (last'.op = "prepare" /\ last'.isolate /\ last'.ret = "pending") =>
          /\ \A name \in infos'[last'.cid].controllers \
                           {"core", "perf_event", "devices"} :
               \A p \in AllPaths :
                 IsPrefix(p, nonLeafOf(last'.cid)) => name \in subtree'[p]
          /\ subtree'[leafOf(last'.cid)] = {}
     /\ (last'.call = "prepare" /\ last'.op # "prepare") =>
          subtree' = subtree
     /\ (\E p \in AllPaths : ~(subtree[p] \subseteq subtree'[p])) =>
          last'.op \in {"destroy", "rmdir"}]_vars

C6_Witness ==
  /\ last.op = "prepare"
  /\ last.ret = "pending"
  /\ last.cid = C1
  /\ last.isolate
  /\ contains(infos, C1)
  /\ "cpu" \in infos[C1].controllers
  /\ "cpu" \in subtree[root] \cap subtree[nonLeafOf(P1)]
                 \cap subtree[nonLeafOf(C1)]
  /\ subtree[leafOf(C1)] = {}

\* C7: prepare(cid) of a container that has Info returns a failure, invokes
\* no controller and leaves the Info table, the cgroups, their
\* subtree_control and the continuations in flight as they were.
C7_DuplicatePrepareFails ==
  [][(last'.op = "prepare" /\ contains(infos, last'.cid)) =>
       /\ last'.ret = "failed"
       /\ last'.invoked = {}
       /\ UNCHANGED <<infos, dirs, subtree, pending, aborted>>]_vars

C7_Witness ==
  /\ last.op = "prepare"
  /\ last.ret = "failed"
  /\ last.invoked = {}
  /\ contains(infos, last.cid)
  /\ infos[last.cid].controllers = controllers
  /\ BothExist(dirs, last.cid)

\* C8: prepare(cid) of a container without Info, called while the root cgroup
\* does not exist, aborts: it creates no cgroup (the root neither), inserts
\* no Info and invokes no controller.
C8_MissingRootAborts ==
  [][(last'.op = "prepare" /\ ~contains(infos, last'.cid)
        /\ ~exists(dirs, root)) =>
       /\ aborted'
       /\ last'.ret = "abort"
       /\ last'.invoked = {}
       /\ UNCHANGED <<infos, dirs, subtree, pending>>]_vars

C8_Witness ==
  /\ aborted
  /\ last.op = "prepare"
  /\ last.ret = "abort"
  /\ ~exists(dirs, root)
  /\ \A c \in ContainerIds : ~contains(infos, c)

----------------------------------------------------------------------------
(* Properties of watch and isolate. *)

\* C9: at most one Limitation is delivered on the limitation future of a
\* container: the first _watch that runs while the future is pending gives
\* it the outcome of its controller's watch future, and from then on no
\* step changes it as long as the Info lives.
C9_SingleLimitation ==
  [][\A c \in ContainerIds :
       /\ (/\ contains(infos, c)
           /\ contains(infos', c)
           /\ infos[c].limitation # NoLimitation) =>
            infos'[c].limitation = infos[c].limitation
       /\ (/\ last'.op = "_watch"
           /\ last'.cid = c
           /\ contains(infos, c)
           /\ infos[c].limitation = NoLimitation) =>
            /\ infos'[c].limitation.state = last'.future
            /\ <<infos'[c].limitation.by, "_watch">> \in last'.invoked]_vars

C9_Witness ==
  /\ last.op = "_watch"
  /\ last.future = "ready"
  /\ contains(infos, last.cid)
  /\ infos[last.cid].limitation.state = "ready"
  /\ <<infos[last.cid].limitation.by, "_watch">> \notin last.invoked

\* C10: isolate(cid, pid) of a container whose Info has isolate = false
\* returns ready and invokes no controller; of a container whose Info has
\* isolate = true it invokes isolate of the controllers of Info.controllers
\* and of no other.
C10_IsolateFansOut ==
  (last.op = "isolate" /\ contains(infos, last.cid)) =>
    IF infos[last.cid].isolate
      THEN last.invoked = Calls(infos[last.cid].controllers, "isolate")
      ELSE last.ret = "ready" /\ last.invoked = {}

----------------------------------------------------------------------------
(* Properties of recover. *)

\* C5 as claimed: in every state, both cgroups of every container whose Info
\* has isolate = true exist.
C5_InfoImpliesCgroups ==
  \A c \in ContainerIds :
    (contains(infos, c) /\ infos[c].isolate) => BothExist(dirs, c)

\* C5 amended: prepare inserts the Info of a container that owns its cgroups
\* in a step after which both cgroups exist; every other Info is inserted by
\* ____recover, which ___recover queues only in a step after which both
\* cgroups of the container exist (it creates the missing ones); and the
\* cgroups of a container go missing only by a destroy of the cgroup of the
\* container or of an ancestor, whether or not Info is still there.
C5_CgroupsWhenInserted ==
  [][/\ \A rec \in Queued("____recover") :
          /\ last'.op \in {"recover", "_recover"}
          /\ BothExist(dirs', rec.cid)
     /\ \A c \in ContainerIds :
          /\ (~contains(infos, c) /\ contains(infos', c)) =>
               \/ /\ last'.op = "prepare"
                  /\ last'.cid = c
                  /\ infos'[c].isolate => BothExist(dirs', c)
               \/ /\ last'.op = "____recover"
                  /\ last'.cid = c
                  /\ \E rec \in Waiting("____recover") :
                       rec.cid = c /\ pending' = Resume(rec)
          /\ (BothExist(dirs, c) /\ ~BothExist(dirs', c)) =>
               /\ last'.op = "destroy"
               /\ IsPrefix(nonLeafOf(last'.cid), nonLeafOf(c))]_vars

C5_Witness ==
  /\ last.op = "____recover"
  /\ last.ret = "ready"
  /\ last.cid = C1
  /\ contains(infos, C1)
  /\ infos[C1].isolate
  /\ infos[C1].controllers = {"cpu"}
  /\ BothExist(dirs, C1)

----------------------------------------------------------------------------
(* Properties of the calls on a running container. *)

\* C11: update of a nested container that shares the cgroups of its parent
\* (its Info has isolate = false) fails and invokes no controller; update of
\* a container with isolation invokes update of the controllers of
\* Info.controllers and of no other, and it fails exactly when one of these
\* updates is not ready.
C11_Update ==
  /\ (last.op = "update" /\ infos[last.cid] # NoInfo) =>
       IF infos[last.cid].isolate
         THEN /\ last.ret = "pending"
              /\ last.invoked = Calls(infos[last.cid].controllers, "update")
         ELSE /\ last.ret = "failed"
              /\ last.invoked = {}
  /\ (last.op = "_update" /\ last.call = "update") =>
       /\ last.ret \in {"ready", "failed"}
       /\ last.ret = "failed" <=> last.future # "ready"

C11_Witness ==
  /\ last.op = "update"
  /\ last.cid = C1
  /\ infos[C1] # NoInfo
  /\ ~infos[C1].isolate
  /\ infos[P1].controllers = controllers
  /\ last.ret = "failed"

\* The calls that ask about a container without changing the Info table.
Queries == {"isolate", "watch", "update", "usage", "status"}

\* C12: isolate, watch, update, usage and status of a container that has no
\* Info each fail, invoke no controller, queue nothing and leave the Info
\* table and the cgroups unchanged.
C12_UnknownContainer ==
  [][(last'.op \in Queries /\ infos[last'.cid] = NoInfo) =>
       /\ last'.ret = "failed"
       /\ last'.invoked = {}
       /\ UNCHANGED <<infos, dirs, subtree, pending, aborted>>]_vars

C12_Witness ==
  /\ last.op = "watch"
  /\ last.cid = P1
  /\ infos[P1] = NoInfo
  /\ infos[C1] # NoInfo
  /\ exists(dirs, nonLeafOf(P1))
  /\ last.ret = "failed"

\* C13: cleanup of a container that has no Info returns ready at once; it
\* invokes the cleanup of no controller, starts no destroy and leaves the
\* Info table and the cgroups unchanged.
C13_CleanupUnknown ==
  [][(last'.op = "cleanup" /\ infos[last'.cid] = NoInfo) =>
       /\ last'.ret = "ready"
       /\ last'.invoked = {}
       /\ UNCHANGED <<infos, dirs, subtree, pending, aborted>>]_vars

C13_Witness ==
  /\ last.op = "cleanup"
  /\ last.cid = C1
  /\ infos[C1] = NoInfo
  /\ exists(dirs, leafOf(C1))
  /\ last.ret = "ready"
  /\ last.invoked = {}

\* C14: usage and status of a container that has Info never fail because a
\* controller failed or was discarded: they ask the controllers of
\* Info.controllers (status of a container without isolation asks for the
\* status of its parent, and fails only when that one has no Info), and
\* their continuation always returns ready, with the merge of exactly the
\* answers that are ready; it is empty when no controller answered.
C14_UsageStatusNeverFail ==
  /\ last.op \in {"usageThen", "statusThen"} =>
       /\ last.ret = "ready"
       /\ last.result = {c \in DOMAIN last.futures :
                           last.futures[c] = "ready"}
  /\ (last.op = "usage" /\ infos[last.cid] # NoInfo) =>
       /\ last.ret = "pending"
       /\ last.invoked = Calls(infos[last.cid].controllers, "usage")
  /\ (last.op = "status" /\ infos[last.cid] # NoInfo) =>
       IF infos[last.cid].isolate
         THEN /\ last.ret = "pending"
              /\ last.invoked = Calls(infos[last.cid].controllers, "status")
       ELSE IF infos[parent(last.cid)] # NoInfo
         THEN /\ last.ret = "pending"
              /\ last.invoked =
                   Calls(infos[parent(last.cid)].controllers, "status")
         ELSE /\ last.ret = "failed"
              /\ last.invoked = {}

C14_Witness ==
  /\ last.op = "statusThen"
  /\ DOMAIN last.futures = controllers
  /\ \A c \in controllers : last.futures[c] # "ready"
  /\ last.ret = "ready"
  /\ last.result = {}

----------------------------------------------------------------------------
(* Properties of the nested containers that share the cgroups of their
   parent. *)

\* C15 as claimed: the Info table holds no entry for a nested container that
\* was prepared with share_cgroups = true, and cgroupInfo of the container is
\* cgroupInfo of its parent.
C15_SharedHasNoInfo ==
  (/\ last.op = "prepare"
   /\ has_parent(last.cid)
   /\ ~last.isolate
   /\ last.ret = "ready") =>
    /\ ~contains(infos, last.cid)
    /\ cgroupInfo(infos, last.cid) = cgroupInfo(infos, parent(last.cid))

\* C15 amended: a prepare of a nested container with share_cgroups = true
\* that gets past the creation of its cgroups inserts an Info keyed by the
\* container itself, with isolate = false and no controller; cgroupInfo of
\* the container returns this Info and not the one of its parent. Only
\* nested containers have an Info with isolate = false, and cgroupInfo of a
\* nested container is cgroupInfo of its parent exactly when the container
\* has no Info of its own.
C15_SharedOwnInfo ==
  [][/\ (/\ last'.op = "prepare"
         /\ has_parent(last'.cid)
         /\ ~last'.isolate
         /\ last'.ret = "ready") =>
          /\ ~contains(infos, last'.cid)
          /\ infos'[last'.cid] =
               Info(last'.cid, nonLeafOf(last'.cid), leafOf(last'.cid), FALSE)
          /\ cgroupInfo(infos', last'.cid) = infos'[last'.cid]
          /\ cgroupInfo(infos', last'.cid) #
               cgroupInfo(infos', parent(last'.cid))
     /\ \A c \in ContainerIds :
          /\ (contains(infos', c) /\ ~infos'[c].isolate) =>
               /\ has_parent(c)
               /\ infos'[c].controllers = {}
          /\ has_parent(c) =>
               (cgroupInfo(infos', c) = cgroupInfo(infos', parent(c))
                  <=> ~contains(infos', c))]_vars

C15_Witness ==
  /\ last.op = "prepare"
  /\ last.cid = C1
  /\ ~last.isolate
  /\ last.ret = "ready"
  /\ contains(infos, P1)
  /\ infos[P1].controllers = controllers
  /\ contains(infos, C1)
  /\ ~infos[C1].isolate
  /\ cgroupInfo(infos, C1) # infos[P1]

\* C16 as claimed: prepare of a nested container with share_cgroups = true
\* creates no cgroup for the container.
C16_SharedCreatesNoCgroup ==
  (/\ last.op = "prepare"
   /\ has_parent(last.cid)
   /\ ~last.isolate
   /\ last.ret = "ready") =>
    /\ ~exists(dirs, nonLeafOf(last.cid))
    /\ ~exists(dirs, leafOf(last.cid))

\* C16 amended: a prepare of a nested container with share_cgroups = true
\* that returns ready found no non-leaf cgroup of the container and created
\* its non-leaf and its leaf cgroup, with the ancestors that were missing;
\* what it skips is the controllers: it enables none in any subtree_control,
\* invokes the prepare of none and awaits nothing.
C16_SharedCreatesCgroups ==
  [][(/\ last'.op = "prepare"
      /\ has_parent(last'.cid)
      /\ ~last'.isolate
      /\ last'.ret = "ready") =>
       /\ ~exists(dirs, nonLeafOf(last'.cid))
       /\ dirs' = dirs \cup {p \in AllPaths : IsPrefix(p, leafOf(last'.cid))}
       /\ BothExist(dirs', last'.cid)
       /\ last'.invoked = {}
       /\ UNCHANGED <<subtree, pending, aborted>>]_vars

C16_Witness ==
  /\ last.op = "prepare"
  /\ last.cid = C1
  /\ ~last.isolate
  /\ last.ret = "ready"
  /\ contains(infos, P1)
  /\ infos[P1].isolate
  /\ BothExist(dirs, P1)
  /\ BothExist(dirs, C1)
  /\ subtree[nonLeafOf(C1)] = {}

----------------------------------------------------------------------------
(* Properties of the orphans. *)

\* C17 as claimed: when recover completes, a cleanup has been scheduled for
\* every cgroup the sweep found that is the cgroup of a container without
\* Info, whether the container is in `orphans` or not.
C17_CleanupForEveryOrphan ==
  [][(last'.op = "__recover" /\ last'.ret # "failed") =>
       \A c \in recovery.knownOrphans \cup recovery.unknownOrphans :
         \E rec \in Queued("_cleanup") : rec.cid = c]_vars

\* C17 amended: the sweep of _recover classifies the cgroups of the
\* containers without Info by `orphans`; __recover, when no ___recover of an
\* orphan failed, schedules one cleanup for each unknown orphan (swept and
\* not in `orphans`), each of which has Info by then, and none for a known
\* orphan; when a ___recover failed it schedules none at all.  No other step
\* of recover schedules a cleanup.
C17_CleanupForUnknownOrphans ==
  [][/\ last'.op = "_recover" =>
          /\ Queued("_cleanup") = {}
          /\ last'.ret # "failed" =>
               /\ recovery'.knownOrphans = swept \cap recovery.orphans
               /\ recovery'.unknownOrphans = swept \ recovery.orphans
     /\ last'.op \in {"recover", "____recover"} => Queued("_cleanup") = {}
     /\ last'.op = "__recover" =>
          IF recovery.failed
            THEN /\ last'.ret = "failed"
                 /\ Queued("_cleanup") = {}
            ELSE /\ {rec.cid : rec \in Queued("_cleanup")} =
                      recovery.unknownOrphans
                 /\ \A rec \in Queued("_cleanup") :
                      /\ contains(infos, rec.cid)
                      /\ rec.ctrls = infos[rec.cid].controllers
                      /\ CopiesIn(rec, pending') = CopiesIn(rec, pending) + 1
                 /\ \A c \in recovery.knownOrphans :
                      /\ contains(infos, c)
                      /\ \A rec \in Waiting("_cleanup") : rec.cid # c]_vars

C17_Witness ==
  /\ last.op = "__recover"
  /\ last.ret = "ready"
  /\ recovery.knownOrphans = {P1}
  /\ recovery.unknownOrphans = {C1}
  /\ contains(infos, P1)
  /\ contains(infos, C1)
  /\ {rec.cid : rec \in Waiting("_cleanup")} = {C1}

\* C18 as claimed: across recover and every later cleanup, a destroy is
\* started at most once for the cgroup of an orphan the sweep found, and at
\* least once for every unknown orphan before its Info is erased.
C18_DestroyedExactlyOnce ==
  [][/\ recovery'.restarted = {}
     /\ \A c \in recovery.unknownOrphans :
          (/\ last'.op \in {"_cleanup", "__cleanup"}
           /\ last'.cid = c
           /\ contains(infos, c)
           /\ ~contains(infos', c)) => c \in recovery.started]_vars

\* C18 amended: __recover schedules exactly one cleanup for each unknown
\* orphan.  A destroy is started only by a _cleanup, one at a time, for a
\* container that has Info and whose non-leaf cgroup exists at that moment;
\* a _cleanup that finds the cgroup gone (the destroy of an ancestor removed
\* it) or a controller cleanup not ready starts none, so the Info of an
\* unknown orphan may be erased without a destroy of its own.  Nothing keeps
\* a later cleanup of the same container (the retry after a failed destroy,
\* or a call while the first destroy is running) from starting a destroy
\* again.
C18_DestroyPerCleanup ==
  [][/\ Queued("destroy") # {} =>
          /\ last'.op = "_cleanup"
          /\ last'.ret = "pending"
          /\ contains(infos, last'.cid)
          /\ exists(dirs, nonLeafOf(last'.cid))
          /\ \A rec \in Queued("destroy") :
               /\ rec.cid = last'.cid
               /\ CopiesIn(rec, pending') = CopiesIn(rec, pending) + 1
          /\ last'.cid \in recovery.knownOrphans \cup recovery.unknownOrphans
               => /\ last'.cid \in recovery'.started
                  /\ last'.cid \in recovery'.restarted
                       <=> last'.cid \in recovery.started
     /\ (last'.op = "_cleanup" /\ last'.ret = "pending") =>
          Queued("destroy") # {}
     /\ (last'.op = "_cleanup" /\ last'.ret = "ready") =>
          /\ ~exists(dirs, nonLeafOf(last'.cid))
          /\ Queued("destroy") = {}
     /\ (last'.op = "__recover" /\ last'.ret # "failed") =>
          \A c \in recovery.unknownOrphans :
            \E rec \in Queued("_cleanup") :
              /\ rec.cid = c
              /\ CopiesIn(rec, pending') = 1
     /\ recovery'.started \subseteq recovery.started \cup {last'.cid}]_vars

C18_Witness ==
  /\ last.op = "_cleanup"
  /\ last.ret = "pending"
  /\ last.cid \in recovery.unknownOrphans
  /\ recovery.started = {last.cid}
  /\ recovery.restarted = {}
  /\ \E rec \in Waiting("destroy") : rec.cid = last.cid

\* C19: a recover(states, orphans) that repeats, with the same arguments,
\* the recover that has just completed successfully, completes and leaves
\* the Info table and the cgroups as they were: no step of it aborts the
\* agent or changes either of them.
C19_RecoverIdempotent ==
  [][(last'.call = "recover" /\ (recovery.again \/ recovery'.again)) =>
       /\ ~aborted'
       /\ infos' = infos
       /\ dirs' = dirs]_vars

\* C20: when the agent starts with the cgroup of an unknown orphan on disk
\* and recover returns ready, then, the controller cleanups and the destroys
\* completing successfully, eventually the non-leaf cgroup of the orphan (and
\* with it everything below) is removed and the orphan has no Info.
C20_OrphanEventuallyRemoved ==
  \A c \in ContainerIds :
    (/\ last.op = "__recover"
     /\ last.ret = "ready"
     /\ c \in recovery.unknownOrphans)
      ~> (/\ ~contains(infos, c)
          /\ \A p \in dirs : ~IsPrefix(nonLeafOf(c), p))

C20_Witness ==
  /\ last.op = "__cleanup"
  /\ last.ret = "ready"
  /\ last.cid = C1
  /\ ~contains(infos, C1)
  /\ \A p \in dirs : ~IsPrefix(nonLeafOf(C1), p)
  /\ exists(dirs, nonLeafOf(P1))
  /\ recovery.unknownOrphans = {}

----------------------------------------------------------------------------
(* Properties of the order of the calls. *)

\* C21: the updates of a container reach the controllers in the order in
\* which the isolator received them: update invokes the update of every
\* controller of Info.controllers in the step in which it is received, before
\* its await, so that the calls of an update that is still awaited were all
\* made before a later update is received; no continuation invokes an update
\* of a controller later on.
C21_UpdatesInArrivalOrder ==
  [][/\ (last'.op = "update" /\ last'.ret = "pending") =>
          /\ last'.invoked =
               {<<c, "update">> : c \in infos[last'.cid].controllers}
          /\ \E rec \in Queued("_update") :
               /\ rec.cid = last'.cid
               /\ rec.call = "update"
               /\ rec.ctrls = infos[last'.cid].controllers
               /\ pending' = pending (+) SetToBag({rec})
     /\ (\E c \in controllers : <<c, "update">> \in last'.invoked) =>
          /\ last'.op \in {"update", "_prepare"}
          /\ Queued("_update") # {}
     /\ last'.op = "_update" => Queued("_update") = {}]_vars

C21_Witness ==
  /\ last.op = "update"
  /\ last.ret = "pending"
  /\ last.invoked = {<<c, "update">> : c \in controllers}
  /\ \E rec \in Waiting("_update") :
       /\ rec.cid = last.cid
       /\ rec.call = "update"
       /\ CopiesIn(rec, pending) = 2


----------------------------------------------------------------------------
(* Properties of the launch info. *)

\* The directives that put the container in its own cgroup namespace.
Directives(containerId) ==
  ContainerLaunchInfo(
    {"CLONE_NEWCGROUP", "CLONE_NEWNS"},
    {[source |-> leafOf(containerId), target |-> sysFsCgroup,
      flags |-> {"MS_BIND", "MS_REC"}]},
    {})

\* prepare has returned a value.
PrepareReturned ==
  /\ last.call = "prepare"
  /\ last.op \in {"prepare", "__prepare"}
  /\ last.ret = "ready"

\* C22: prepare returns no launch info for a configuration without rootfs;
\* with a rootfs it returns the launch info that requests a new cgroup
\* namespace and a new mount namespace and bind-mounts, recursively, the
\* leaf cgroup of that container at <rootfs>/sys/fs/cgroup; for a command
\* task these directives are in the --task_launch_info argument only, the
\* outer launch info has none.
C22_LaunchInfo ==
  PrepareReturned =>
    IF ~last.cfg.rootfs THEN last.launchInfo = None
    ELSE IF last.cfg.task_info
      THEN last.launchInfo =
             ContainerLaunchInfo({}, {},
               {<<"--task_launch_info", Directives(last.cid)>>})
    ELSE last.launchInfo = Directives(last.cid)


\* The nearest container, from containerId upwards, that has an Info.
RECURSIVE nearest(_, _)
nearest(m, containerId) ==
  IF contains(m, containerId) \/ ~has_parent(containerId) THEN containerId
  ELSE nearest(m, parent(containerId))

\* C22 (amended): the leaf that is mounted is the leaf of the nearest
\* container with an Info when __prepare runs: the container's own leaf
\* unless a cleanup has erased its Info while prepare was in flight.
C22_LaunchInfoOfNearest ==
  PrepareReturned =>
    /\ IF ~last.cfg.rootfs THEN last.launchInfo = None
       ELSE IF last.cfg.task_info
         THEN last.launchInfo =
                ContainerLaunchInfo({}, {},
                  {<<"--task_launch_info",
                     Directives(nearest(infos, last.cid))>>})
       ELSE last.launchInfo = Directives(nearest(infos, last.cid))
    /\ last.cfg.rootfs => contains(infos, nearest(infos, last.cid))

C22_Witness ==
  /\ PrepareReturned
  /\ last.cfg.rootfs /\ last.cfg.task_info
  /\ contains(infos, last.cid)
  /\ last.launchInfo.clone_namespaces = {}
  /\ \E a \in last.launchInfo.arguments :
       a[2].mounts = {[source |-> leafOf(last.cid), target |-> sysFsCgroup,
                       flags |-> {"MS_BIND", "MS_REC"}]}


----------------------------------------------------------------------------
(* Properties of the watcher. *)

\* The set of watched paths.
watchedPaths(w) == DOMAIN w.path_to_wd

\* C23: add(path) returns an error and leaves the set of watched paths as it
\* is when the path is watched; remove(path) and a Remove or Rename event
\* for the path end its watch, and add(path) of the file is accepted again
\* then.
C23_AddWatchedIsError ==
  [][/\ (watcher'.op = "add" /\ watcher'.path \in watchedPaths(watcher)) =>
          /\ watcher'.ret = "error"
          /\ watchedPaths(watcher') = watchedPaths(watcher)
          /\ watcher'.wd_to_path = watcher.wd_to_path
     /\ watcher'.op = "remove" =>
          /\ watcher'.path \notin watchedPaths(watcher')
          /\ watchedPaths(watcher') = watchedPaths(watcher) \ {watcher'.path}
     /\ (/\ watcher'.op = "read_loop"
         /\ watcher'.event.type \in {"Remove", "Rename"}) =>
          /\ watcher'.event.path = watcher'.path
          /\ watcher'.path \notin watchedPaths(watcher')
     /\ (/\ watcher'.op = "add"
         /\ watcher'.path \notin watchedPaths(watcher)
         /\ watcher'.path \in watcher.files) =>
          /\ watcher'.ret = "ready"
          /\ watchedPaths(watcher') =
               watchedPaths(watcher) \cup {watcher'.path}
     /\ watchedPaths(watcher') # watchedPaths(watcher) =>
          watcher'.op \in {"add", "remove", "read_loop"}]_vars

\* A file is watched again after a Remove event ended its first watch.
C23_Witness ==
  /\ watcher.op = "add" /\ watcher.ret = "ready"
  /\ watcher.event = [path |-> watcher.path, type |-> "Remove"]
  /\ watcher.path \in watchedPaths(watcher)


----------------------------------------------------------------------------
(* Properties of the controllers that are not enabled. *)

\* The configured controllers that have no entry in cgroup.controllers.
notEnabled == controllers \cap {"core", "perf_event", "devices"}

\* C24: prepare never writes core, perf_event or devices into the
\* subtree_control of a cgroup, yet after a successful prepare of an
\* unshared container each configured one of them is in Info[cid].controllers.
C24_RegisteredAtCompletion ==
  (last.op = "__prepare" /\ last.ret = "ready" /\ last.isolate) =>
    notEnabled \subseteq infos[last.cid].controllers

\* C24 (amended): no handler of prepare writes core, perf_event or devices
\* into a subtree_control; when prepare of an unshared container has gone
\* through its loop, each configured one of them is in Info[cid].controllers
\* and its prepare has been invoked.
C24_RegisteredNotEnabled ==
  [][/\ last'.call = "prepare" =>
          \A p \in AllPaths :
            (subtree'[p] \ subtree[p]) \cap notEnabled = {}
     /\ (last'.op = "prepare" /\ last'.ret = "pending") =>
          /\ last'.isolate
          /\ notEnabled \subseteq infos'[last'.cid].controllers
          /\ \A c \in notEnabled : <<c, "prepare">> \in last'.invoked]_vars

C24_Witness ==
  /\ last.op = "prepare" /\ last.ret = "pending" /\ last.isolate
  /\ "core" \in infos[last.cid].controllers
  /\ <<"core", "prepare">> \in last.invoked
  /\ \A p \in hops(last.cid) :
       "cpu" \in subtree[p] /\ "core" \notin subtree[p]


----------------------------------------------------------------------------
(* Properties of a prepare whose controllers fail. *)

\* The controllers whose prepare did not become ready.
unready(event) ==
  {c \in DOMAIN event.futures : event.futures[c] # "ready"}

\* C25: when the prepare of at least one controller fails or is discarded,
\* prepare returns one failure with a message for each controller that is
\* not ready, a discarded one included, and update is not invoked.
C25_PrepareFailsWithEveryError ==
  [][(last'.op = "_prepare" /\ unready(last') # {}) =>
       /\ last'.ret = "failed"
       /\ last'.result = unready(last')
       /\ last'.invoked = {}
       /\ Queued("_update") = {}
       /\ Queued("__prepare") = {}]_vars

C25_Witness ==
  /\ last.op = "_prepare" /\ last.ret = "failed"
  /\ \E c \in DOMAIN last.futures : last.futures[c] = "discarded"
  /\ \E c \in DOMAIN last.futures : last.futures[c] = "failed"
  /\ last.result = DOMAIN last.futures


----------------------------------------------------------------------------
(* Properties of the cleanup of a container whose prepare failed. *)

\* C26: a prepare(cid) that fails because the prepare of a controller failed
\* leaves the non-leaf and the leaf cgroup and Info[cid] in place; the
\* cleanup(cid) that follows is not ignored, and a cleanup that succeeds has
\* removed the directories and erased Info[cid].
C26_FailedPrepareIsCleanedUp ==
  [][/\ (last'.op = "_prepare" /\ last'.ret = "failed") =>
          /\ BothExist(dirs', last'.cid)
          /\ contains(infos', last'.cid)
          /\ UNCHANGED <<infos, dirs, subtree>>
     /\ (/\ last.op = "_prepare" /\ last.ret = "failed"
         /\ last'.op = "cleanup" /\ last'.cid = last.cid) =>
          /\ last'.ret = "pending"
          /\ Queued("_cleanup") # {}
     /\ (last'.call = "cleanup" /\ last'.ret = "ready"
           /\ contains(infos, last'.cid)) =>
          /\ ~exists(dirs', nonLeafOf(last'.cid))
          /\ ~exists(dirs', leafOf(last'.cid))
          /\ ~contains(infos', last'.cid)]_vars

\* The prepare of cpu has failed, and prepare with it: the cgroups and the
\* Info of the container are there for cleanup.
C26_Witness ==
  /\ last.op = "_prepare" /\ last.ret = "failed"
  /\ last.futures["cpu"] = "failed"
  /\ BothExist(dirs, last.cid)
  /\ contains(infos, last.cid)
  /\ infos[last.cid].controllers = controllers

----------------------------------------------------------------------------
(* Properties of the recovery of a container. *)

\* The configured controllers that are enabled in the non-leaf cgroup.
enabledIn(s, containerId) == controllers \cap s[nonLeafOf(containerId)]

\* C27: the recovery of a container invokes recover on the configured
\* controllers that are enabled in its non-leaf cgroup and on no other, and
\* when it succeeds Info[cid].controllers is that set.
C27_RecoversEnabledControllers ==
  [][/\ \A rec \in Queued("____recover") :
          rec.ctrls = enabledIn(subtree, rec.cid)
     /\ Queued("____recover") # {} =>
          last'.invoked =
            {<<c, "recover">> :
               c \in UNION {enabledIn(subtree, rec.cid) :
                              rec \in Queued("____recover")}}
     /\ (last'.op = "____recover" /\ last'.ret = "ready") =>
          /\ contains(infos', last'.cid)
          /\ infos'[last'.cid].controllers = enabledIn(subtree, last'.cid)]_vars

\* A container is recovered with cpu, which is enabled in its cgroup, and
\* without core, which is configured and enabled in no cgroup.
C27_Witness ==
  /\ last.op = "____recover" /\ last.ret = "ready"
  /\ infos[last.cid].controllers = {"cpu"}
  /\ subtree[nonLeafOf(last.cid)] = {"cpu"}
  /\ "core" \in controllers


----------------------------------------------------------------------------
(* Properties of the sweep. *)

\* The containers whose non-leaf cgroup is on disk and that have no Info.
withoutInfo ==
  {c \in ContainerIds : exists(dirs, nonLeafOf(c)) /\ ~contains(infos, c)}

\* C28: the sweep takes neither the cgroup of the agent nor a cgroup that is
\* the cgroup of no container nor a container that has Info; what it takes is
\* a known orphan if and only if it is in `orphans`; known and unknown
\* orphans get their Info by the recovery of a container, and recover
\* schedules a cleanup for the unknown ones only and leaves the Info of the
\* known ones in place.
C28_SweepClassifiesOrphans ==
  [][/\ (last'.op = "_recover" /\ last'.ret # "failed") =>
          /\ exists(dirs, agent)
          /\ recovery'.knownOrphans = withoutInfo \cap recovery.orphans
          /\ recovery'.unknownOrphans = withoutInfo \ recovery.orphans
          /\ {rec.cid : rec \in Queued("____recover")} \subseteq withoutInfo
          /\ ~recovery'.failed =>
               {rec.cid : rec \in Queued("____recover")} = withoutInfo
          /\ exists(dirs', agent)
     /\ (last'.op = "__recover" /\ last'.ret # "failed") =>
          /\ \A c \in recovery.knownOrphans \cup recovery.unknownOrphans :
               contains(infos, c)
          /\ {rec.cid : rec \in Queued("_cleanup")} = recovery.unknownOrphans
          /\ infos' = infos]_vars

\* The sweep found a known and an unknown orphan beside the cgroup of the
\* agent, their leaf cgroups and a container that was recovered before.
C28_Witness ==
  /\ last.op = "_recover" /\ last.ret = "pending"
  /\ exists(dirs, agent)
  /\ recovery.knownOrphans # {}
  /\ recovery.unknownOrphans = {C1}
  /\ exists(dirs, leafOf(C1))


----------------------------------------------------------------------------
(* Properties of the calls to the controllers. *)

\* The continuations that wait for the controllers of a container.
Awaits == {"_prepare", "_update", "_isolate", "_cleanup", "____recover"}

\* The containers a step calls a controller for.
invokedFor ==
  IF last'.op \in {"recover", "_recover"}
    THEN {rec.cid : rec \in {q \in Queued("____recover") : q.ctrls # {}}}
  ELSE IF last'.op = "__recover"
    THEN {rec.cid : rec \in {q \in Queued("_cleanup") : q.ctrls # {}}}
  ELSE IF last'.invoked # {} THEN {last'.cid}
  ELSE {}

\* C29: no operation calls a controller for a container before the Info of
\* the container is in the table, and no prepare or cleanup of a container
\* begins while an await of the controllers of that container is pending.
C29_OneTransitionAtATime ==
  [][/\ \A c \in invokedFor : infos'[c] # NoInfo
     /\ (last'.op \in {"prepare", "cleanup"} /\ last'.ret = "pending") =>
          \A rec \in BagToSet(pending) :
            rec.k \in Awaits => rec.cid # last'.cid]_vars

\* C29 (amended): prepare, isolate, update and cleanup call the controllers
\* of a container that has Info, in the handler that registers the await of
\* these calls, but for a prepare that fails in its loop, which awaits none
\* of the calls it made; recover calls the controllers for containers that
\* have no Info, which ____recover inserts once the await has completed.
C29_FanOutInOneHandler ==
  [][/\ (/\ last'.op \in {"prepare", "_prepare", "isolate", "update",
                          "cleanup"}
         /\ last'.invoked # {}) =>
          /\ infos'[last'.cid] # NoInfo
          /\ IF last'.ret = "pending"
               THEN \E rec \in BagToSet(pending') :
                      /\ rec.k \in Awaits
                      /\ rec.cid = last'.cid
                      /\ CopiesIn(rec, pending') =
                           CopiesIn(rec, pending) + 1
                      /\ last'.invoked =
                           {<<c, IF rec.k = "_update" THEN "update"
                                 ELSE rec.call>> : c \in rec.ctrls}
               ELSE /\ last'.op = "prepare"
                    /\ last'.ret = "failed"
                    /\ pending' = pending
     /\ last'.op = "__recover" =>
          \A rec \in Queued("_cleanup") : infos'[rec.cid] # NoInfo
     /\ \A rec \in Queued("____recover") :
          /\ last'.op \in {"recover", "_recover"}
          /\ infos'[rec.cid] = NoInfo
     /\ \A c \in ContainerIds :
          (infos[c] = NoInfo /\ infos'[c] # NoInfo) =>
            /\ last'.op \in {"prepare", "____recover"}
            /\ last'.cid = c]_vars

\* A cleanup has called the controllers of a container while the await of
\* its prepare is pending.
C29_Witness ==
  /\ last.op = "cleanup" /\ last.ret = "pending"
  /\ last.invoked # {}
  /\ \E rec \in Waiting("_prepare") : rec.cid = last.cid
  /\ infos[last.cid] # NoInfo


----------------------------------------------------------------------------
(* Properties of the status of a container without isolation. *)

\* The containers on the way from containerId to the top, itself included.
ancestors(containerId) ==
  {SubSeq(containerId, 1, n) : n \in 1..Len(containerId)}

\* The nearest of them that has its own cgroups, when every container on the
\* way to it has an Info.
owners(m, containerId) ==
  {a \in ancestors(containerId) :
     /\ contains(m, a)
     /\ m[a].isolate
     /\ \A b \in ancestors(containerId) :
          Len(b) > Len(a) => contains(m, b) /\ ~m[b].isolate}

\* C30: status of a nested container that shares the cgroups of its parent
\* is the status of the nearest ancestor with cgroups of its own: it asks
\* the controllers of that ancestor's Info and awaits them as the status of
\* the ancestor does; it fails, asking no controller, when a container on
\* the way has no Info; the Info table and the cgroups are left alone.
C30_StatusOfOwner ==
  [][(/\ last'.op = "status"
      /\ infos[last'.cid] # NoInfo
      /\ ~infos[last'.cid].isolate) =>
       /\ Cardinality(owners(infos, last'.cid)) <= 1
       /\ IF owners(infos, last'.cid) = {}
            THEN /\ last'.ret = "failed"
                 /\ last'.invoked = {}
                 /\ pending' = pending
            ELSE \E a \in owners(infos, last'.cid) :
                   /\ a # last'.cid
                   /\ last'.ret = "pending"
                   /\ last'.invoked = Calls(infos[a].controllers, "status")
                   /\ \E rec \in BagToSet(pending') :
                        /\ rec.k = "statusThen"
                        /\ rec.ctrls = infos[a].controllers
                        /\ CopiesIn(rec, pending') = CopiesIn(rec, pending) + 1
       /\ UNCHANGED <<infos, dirs, subtree, aborted>>]_vars

C30_Witness ==
  /\ last.op = "status"
  /\ last.cid = C1
  /\ infos[C1] # NoInfo
  /\ ~infos[C1].isolate
  /\ infos[P1] # NoInfo
  /\ last.ret = "pending"
  /\ last.invoked = Calls(infos[P1].controllers, "status")
  /\ last.invoked # {}


----------------------------------------------------------------------------
(* Properties of the assertions. *)

\* C31 as claimed: the assertion at the start of _cleanup, that the
\* container still has its Info, never fails, however the cleanups of one
\* container interleave.
C31_CleanupAssertionHolds ==
  ~(last.op = "_cleanup" /\ last.ret = "abort")


\* C32 as claimed: the assertion of ____recover, that the container has no
\* Info yet, never fails, whatever states recover is given and however its
\* continuations interleave with prepare.
C32_RecoverAssertionHolds ==
  ~(last.op = "____recover" /\ last.ret = "abort")


----------------------------------------------------------------------------
(* Properties of the cgroups a failed prepare leaves. *)

\* C33 as claimed: when prepare(cid) returns a failure, the cgroups it has
\* created are those of a container that has an Info, so that a cleanup of
\* the container is not ignored.
C33_FailedPrepareIsCovered ==
  [][(last'.op = "prepare" /\ last'.ret = "failed" /\ dirs' # dirs) =>
       contains(infos', last'.cid)]_vars


----------------------------------------------------------------------------
(* Properties of a recover whose sweep fails. *)

\* C34: when the recovery of an orphan the sweep found has failed, __recover
\* returns the failure and calls cleanup for no unknown orphan: it invokes no
\* controller and queues no continuation, and it leaves the Info table, with
\* the Info of the orphans whose recovery succeeded, and the cgroups as they
\* are.
C34_FailedSweepCleansNothing ==
  [][(last'.op = "__recover" /\ recovery.failed) =>
       /\ last'.ret = "failed"
       /\ last'.invoked = {}
       /\ pending' = pending
       /\ infos' = infos
       /\ dirs' = dirs]_vars

C34_Witness ==
  /\ last.op = "__recover"
  /\ last.ret = "failed"
  /\ last.args.states = <<>>
  /\ last.args.orphans = {}
  /\ contains(infos, P1)
  /\ ~contains(infos, C1)
  /\ exists(dirs, nonLeafOf(C1))
  /\ Waiting("_cleanup") = {}


----------------------------------------------------------------------------
(* Properties of the cleanups recover schedules. *)

\* C35: recover returns ready in the step that schedules the cleanups of the
\* unknown orphans, without waiting for them: each of these orphans still has
\* its Info and its cgroup then.  A cleanup that fails later leaves the Info
\* and the outcome of recover as they are and queues no continuation; a
\* cleanup is started by the agent's cleanup or by __recover only, so the
\* failed one is not tried again.
C35_RecoverDoesNotWait ==
  [][/\ (last'.op = "__recover" /\ last'.ret = "ready") =>
          /\ infos' = infos
          /\ dirs' = dirs
          /\ \A c \in recovery'.unknownOrphans :
               /\ contains(infos', c)
               /\ exists(dirs', nonLeafOf(c))
               /\ \E rec \in Queued("_cleanup") : rec.cid = c
     /\ (last'.call = "cleanup" /\ last'.ret \in {"failed", "discarded"}) =>
          /\ infos' = infos
          /\ recovery'.phase = recovery.phase
          /\ recovery'.failed = recovery.failed
          /\ \A rec \in BagToSet(pending') :
               CopiesIn(rec, pending') <= CopiesIn(rec, pending)
     /\ \A rec \in Queued("_cleanup") :
          last'.op \in {"cleanup", "__recover"}]_vars

C35_Witness ==
  /\ last.op = "_cleanup"
  /\ last.ret = "failed"
  /\ last.cid \in recovery.unknownOrphans
  /\ recovery.phase = "idle"
  /\ contains(infos, last.cid)
  /\ exists(dirs, nonLeafOf(last.cid))
  /\ pending = EmptyBag


----------------------------------------------------------------------------
(* Properties of the limitation future. *)

\* The _watch that runs right after the prepare that inserted Info[c] was
\* attached by a watch of an Info of c that has been erased since.
afterErase(c) ==
  \/ ~contains(infos, c)
  \/ /\ last.op = "prepare"
     /\ last.cid = c
     /\ last.ret = "pending"

\* C36 as claimed: the limitation future of a container takes the outcome of
\* the first watch future of a controller that completes, a failure
\* included, and no later one; the outcome of a watch future that arrives
\* after the Info of the container was erased changes nothing.
C36_FirstOutcomeUnlessErased ==
  [][last'.op = "_watch" =>
       IF afterErase(last'.cid) THEN infos' = infos
       ELSE IF infos[last'.cid].limitation = NoLimitation
         THEN infos'[last'.cid].limitation.state = last'.future
       ELSE infos' = infos]_vars

\* C36 (amended): _watch looks at the Info table when it runs.  Without an
\* Info of the container it changes nothing; with one, whose limitation
\* future is pending, the future takes the outcome of the watch future,
\* whatever it is (also when the Info is not the one the watch was called
\* for, the container having been cleaned up and prepared again in between);
\* with one whose limitation future has completed it changes nothing.  It
\* changes no other Info and no cgroup, and queues nothing.
C36_FirstOutcomeOfInfoInTable ==
  [][last'.op = "_watch" =>
       /\ IF ~contains(infos, last'.cid) THEN infos' = infos
          ELSE IF infos[last'.cid].limitation = NoLimitation
            THEN /\ infos'[last'.cid].limitation.state = last'.future
                 /\ infos'[last'.cid].limitation.state \in Outcomes
                 /\ \A c \in ContainerIds \ {last'.cid} : infos'[c] = infos[c]
          ELSE infos' = infos
       /\ last'.ret = infos'[last'.cid].limitation.state
       /\ \A rec \in BagToSet(pending') :
            CopiesIn(rec, pending') <= CopiesIn(rec, pending)
       /\ UNCHANGED <<dirs, subtree, aborted>>]_vars

C36_Witness ==
  /\ last.op = "_watch"
  /\ last.future = "ready"
  /\ contains(infos, last.cid)
  /\ infos[last.cid].limitation.state = "failed"
  /\ last.ret = "failed"


----------------------------------------------------------------------------
(* Properties of the assertions of prepare. *)

\* C37 as claimed: prepare aborts only when the root cgroup does not exist.
C37_AbortsOnlyWithoutRoot ==
  [][(last'.op = "prepare" /\ last'.ret = "abort") =>
       ~exists(dirs, root)]_vars

\* C37 (amended): prepare aborts when the root cgroup does not exist, before
\* it has changed anything, and when a container of class DEBUG does not
\* share the cgroups of its parent, after it has created the cgroups of the
\* container and inserted its Info; it aborts in no other case, and no
\* prepare of a container of class DEBUG gets as far as the await of the
\* controllers.
C37_AbortsWithoutRootOrDebug ==
  [][/\ last'.op = "prepare" =>
          /\ aborted' <=> last'.ret = "abort"
          /\ last'.ret = "abort" =>
               \/ /\ ~exists(dirs, root)
                  /\ UNCHANGED <<infos, dirs, subtree, pending>>
               \/ /\ exists(dirs, root)
                  /\ last'.cfg.debug
                  /\ last'.isolate
                  /\ ~contains(infos, last'.cid)
                  /\ contains(infos', last'.cid)
                  /\ BothExist(dirs', last'.cid)
                  /\ last'.invoked = {}
                  /\ UNCHANGED <<subtree, pending>>
     /\ \A rec \in Queued("_prepare") : ~rec.cfg.debug]_vars

C37_Witness ==
  /\ aborted
  /\ last.op = "prepare"
  /\ last.ret = "abort"
  /\ exists(dirs, root)
  /\ last.cfg.debug
  /\ last.isolate
  /\ contains(infos, last.cid)
  /\ BothExist(dirs, last.cid)

====
